---- MODULE Spec2Model ----
(***************************************************************************)
(* Pixel-tree alignment of hipscat (pixel_tree/pixel_alignment.py) as a    *)
(* state machine.  A state holds the two input trees, the alignment type   *)
(* and the local variables of align_trees, perform_inner_align_trees,      *)
(* perform_align_trees, _add_remaining_pixels and _add_pixels_until; one   *)
(* action is one loop iteration (or the code between two loops).           *)
(*                                                                         *)
(* A pixel is a half-open interval <<start, end>> at the tree's order; a   *)
(* mapping row is the 6-tuple <<l0, l1, r0, r1, a0, a1>> the code builds   *)
(* with np.concatenate.                                                    *)
(*                                                                         *)
(* The region validators of hats (pixel_math/validators.py), cull_to_fov    *)
(* (inspection/visualize_catalog.py) and the path functions of hipscat     *)
(* (io/paths.py) are functions of their arguments: a state holds one call  *)
(* and its outcome, and one action is one call.  _merge_too_small_pixels   *)
(* (inspection/visualize_catalog.py) is a loop over the entries of a map:  *)
(* one action is one turn of it.                                           *)
(***************************************************************************)
EXTENDS Integers, Sequences, FiniteSets, TLC

\* ------------------------------------------------------------------ bounds
\* The deepest tree order of an input tree.
Depth == 1
\* The modelled part of the sky: pixels 0 .. MaxPix-1 at order Depth.
MaxPix == 8
\* The largest number of pixels of an input tree.
MaxTiles == 3
\* The rows the model records; a loop that appends beyond it keeps running
\* and its further rows are not recorded.
MaxRows == 10
\* The largest interval endpoint of an unchecked (possibly malformed) input.
MaxEnd == 2

\* --------------------------------------------------------------- constants
\* 0xAAAAAAAAAAAAAAA has 15 hex digits: its highest set bit is bit 59.
MaskTopBit == 59

INNER == "inner"
LEFT == "left"
RIGHT == "right"
OUTER == "outer"
PixelAlignmentType == {INNER, LEFT, RIGHT, OUTER}

LEFT_INCLUDE_ALIGNMENT_TYPES == {LEFT, OUTER}
RIGHT_INCLUDE_ALIGNMENT_TYPES == {RIGHT, OUTER}

NONE_PIX == <<-1, -1>>
LEFT_SIDE == TRUE
RIGHT_SIDE == FALSE

\* ----------------------------------------------------------------- helpers
RECURSIVE Pow4(_)
Pow4(k) == IF k = 0 THEN 1 ELSE 4 * Pow4(k - 1)

RECURSIVE Pow2(_)
Pow2(k) == IF k = 0 THEN 1 ELSE 2 * Pow2(k - 1)

\* np.int64(np.log2(n)) for n >= 1: the integer part of the base-2 logarithm.
RECURSIVE FloorLog2(_)
FloorLog2(n) == IF n <= 1 THEN 0 ELSE 1 + FloorLog2(n \div 2)

Min(a, b) == IF a <= b THEN a ELSE b
Max(a, b) == IF a >= b THEN a ELSE b

\* ShiftTree with a shift of k bits where 2 * k are due.
ShiftTreeOneBit(tree, k) ==
    [i \in 1..Len(tree) |-> <<tree[i][1] * Pow2(k), tree[i][2] * Pow2(k)>>]

\* left.tree << (2 * k), on every endpoint of every interval.
ShiftTree(tree, k) ==
    [i \in 1..Len(tree) |-> <<tree[i][1] * Pow4(k), tree[i][2] * Pow4(k)>>]

\* np.concatenate((left_pix, right_pix, aligned_pix))
Row(l, r, a) == <<l[1], l[2], r[1], r[2], a[1], a[2]>>
RowLeft(row) == <<row[1], row[2]>>
RowRight(row) == <<row[3], row[4]>>
RowAligned(row) == <<row[5], row[6]>>

\* list.append, up to the rows the model records.
AppendRow(m, row) == IF Len(m) < MaxRows THEN Append(m, row) ELSE m

RECURSIVE AppendRows(_, _)
AppendRows(m, rows) ==
    IF rows = <<>> THEN m ELSE AppendRows(AppendRow(m, Head(rows)), Tail(rows))

\* ------------------------------------------------------------- input trees
\* The pixels of orders 0..d inside the modelled sky, as intervals at order d.
NPixAt(d) == MaxPix \div Pow4(Depth - d)

PixelsAt(d) ==
    { p \in (0..NPixAt(d)) \X (0..NPixAt(d)) :
        \E k \in 0..d : p[2] - p[1] = Pow4(k) /\ p[1] % Pow4(k) = 0 }

\* A pixel tree's invariant: sorted, disjoint intervals.
IsSortedDisjoint(tree) ==
    \A i \in 1..(Len(tree) - 1) : tree[i][2] <= tree[i + 1][1]

TreesAt(d) ==
    { t \in UNION { [1..n -> PixelsAt(d)] : n \in 0..MaxTiles } :
        IsSortedDisjoint(t) }

PixelTrees ==
    UNION { { [tree_order |-> d, tree |-> t] : t \in TreesAt(d) } : d \in 0..Depth }

\* Interval sequences as a caller can hand them over unchecked: any one or two
\* pairs of endpoints, in any order, overlapping or not, of any length.
AnyIntervals == (0..MaxEnd) \X (0..MaxEnd)

AnyTrees ==
    { [tree_order |-> Depth, tree |-> t] :
        t \in {<<>>} \cup { <<p>> : p \in AnyIntervals }
                     \cup { <<p, q>> : p \in AnyIntervals, q \in AnyIntervals } }

\* ------------------------------------------------------------------- state
VARIABLES
    left, right, alignment_type,   \* the arguments of align_trees
    pc,                            \* where the call is
    max_n, left_aligned, right_aligned,
    left_index, right_index, last_index, added_until,
    mapping,                       \* the rows (the pre-sized buffer in inner)
    add_from, add_to, matching_pix, is_left_pixel,  \* _add_pixels_until
    cont,                          \* what the caller does after _add_pixels_until
    result_tree,                   \* PixelAlignment.pixel_tree's intervals
    call,                          \* a call of a validator or of cull_to_fov
    outcome                        \* what that call returned or raised

vars == <<left, right, alignment_type, pc, max_n, left_aligned, right_aligned,
          left_index, right_index, last_index, added_until, mapping,
          add_from, add_to, matching_pix, is_left_pixel, cont, result_tree,
          call, outcome>>

\* No validator and no cull_to_fov call is under way.
NoCall == [fn |-> "none"]
PENDING == [raised |-> "pending", message |-> ""]

NoCont == [rows |-> <<>>, until |-> 0, li |-> 0, ri |-> 0, pc |-> "none"]

Init ==
    /\ left \in PixelTrees
    /\ right \in PixelTrees
    /\ alignment_type \in PixelAlignmentType
    /\ pc = "start"
    /\ max_n = 0
    /\ left_aligned = <<>>
    /\ right_aligned = <<>>
    /\ left_index = 0
    /\ right_index = 0
    /\ last_index = 0
    /\ added_until = 0
    /\ mapping = <<>>
    /\ add_from = 0
    /\ add_to = 0
    /\ matching_pix = NONE_PIX
    /\ is_left_pixel = FALSE
    /\ cont = NoCont
    /\ result_tree = <<>>
    /\ call = NoCall
    /\ outcome = PENDING

\* The same start, with arguments nobody has checked.
InitAny ==
    /\ left \in AnyTrees
    /\ right \in AnyTrees
    /\ alignment_type \in PixelAlignmentType
    /\ pc = "start"
    /\ max_n = 0
    /\ left_aligned = <<>>
    /\ right_aligned = <<>>
    /\ left_index = 0
    /\ right_index = 0
    /\ last_index = 0
    /\ added_until = 0
    /\ mapping = <<>>
    /\ add_from = 0
    /\ add_to = 0
    /\ matching_pix = NONE_PIX
    /\ is_left_pixel = FALSE
    /\ cont = NoCont
    /\ result_tree = <<>>
    /\ call = NoCall
    /\ outcome = PENDING

\* align_trees as it would be with an in-place shift (tree <<= ...) of the
\* arguments instead of the two new arrays of lines 91-92.
AlignTreesInPlace ==
    /\ pc = "start"
    /\ max_n' = Max(left.tree_order, right.tree_order)
    /\ left_aligned' = ShiftTree(left.tree, max_n' - left.tree_order)
    /\ right_aligned' = ShiftTree(right.tree, max_n' - right.tree_order)
    /\ left' = [tree_order |-> max_n', tree |-> left_aligned']
    /\ right' = [tree_order |-> max_n', tree |-> right_aligned']
    /\ IF alignment_type = INNER
         THEN /\ pc' = "inner"
              /\ mapping' = [i \in 1..(Len(left.tree) + Len(right.tree)) |->
                                <<0, 0, 0, 0, 0, 0>>]
         ELSE /\ pc' = "scan"
              /\ mapping' = <<>>
    /\ UNCHANGED <<call, outcome, alignment_type, left_index, right_index,
                   last_index, added_until, add_from, add_to, matching_pix,
                   is_left_pixel, cont, result_tree>>

\* align_trees, lines 88-99: shift both trees to the common order and enter
\* the scan the alignment type selects.
AlignTrees ==
    /\ pc = "start"
    /\ max_n' = Max(left.tree_order, right.tree_order)
    /\ left_aligned' = ShiftTree(left.tree, max_n' - left.tree_order)
    /\ right_aligned' = ShiftTree(right.tree, max_n' - right.tree_order)
    /\ IF alignment_type = INNER
         THEN /\ pc' = "inner"
              /\ mapping' = [i \in 1..(Len(left.tree) + Len(right.tree)) |->
                                <<0, 0, 0, 0, 0, 0>>]
         ELSE /\ pc' = "scan"
              /\ mapping' = <<>>
    /\ UNCHANGED <<call, outcome, left, right, alignment_type, left_index, right_index,
                   last_index, added_until, add_from, add_to, matching_pix,
                   is_left_pixel, cont, result_tree>>

\* alignment_type in LEFT_INCLUDE_ALIGNMENT_TYPES / RIGHT_INCLUDE_ALIGNMENT_TYPES
include_all_left == alignment_type \in LEFT_INCLUDE_ALIGNMENT_TYPES
include_all_right == alignment_type \in RIGHT_INCLUDE_ALIGNMENT_TYPES

\* The loop condition of both scans, and the pixels under the cursors
\* (the code's indices are 0-based).
ScanCondition ==
    left_index < Len(left_aligned) /\ right_index < Len(right_aligned)
left_pix == left_aligned[left_index + 1]
right_pix == right_aligned[right_index + 1]
PixSize(pix) == pix[2] - pix[1]

\* ------------------------------------------- perform_inner_align_trees
\* InnerRow with the coarser pixel taken as the aligned one.
InnerRowCoarser(l, r) ==
    IF PixSize(l) >= PixSize(r) THEN Row(l, r, l) ELSE Row(l, r, r)

\* InnerRow with the right pixel left out of the row.
InnerRowNoRight(l, r) ==
    IF PixSize(l) <= PixSize(r) THEN Row(l, NONE_PIX, l) ELSE Row(l, NONE_PIX, r)

\* The row the overlap branches write: the smaller pixel is the aligned one.
InnerRow(l, r) ==
    IF PixSize(l) <= PixSize(r) THEN Row(l, r, l) ELSE Row(l, r, r)

\* InnerStep that advances both cursors on every overlap.
InnerStepBothCursors ==
    /\ pc = "inner"
    /\ ScanCondition
    /\ IF left_pix[1] >= right_pix[2]
         THEN /\ right_index' = right_index + 1
              /\ UNCHANGED <<left_index, last_index, mapping>>
         ELSE IF right_pix[1] >= left_pix[2]
         THEN /\ left_index' = left_index + 1
              /\ UNCHANGED <<right_index, last_index, mapping>>
         ELSE /\ mapping' = [mapping EXCEPT ![last_index + 1] = InnerRow(left_pix, right_pix)]
              /\ last_index' = last_index + 1
              /\ left_index' = left_index + 1
              /\ right_index' = right_index + 1
    /\ UNCHANGED <<call, outcome, left, right, alignment_type, pc, max_n, left_aligned,
                   right_aligned, added_until, add_from, add_to, matching_pix,
                   is_left_pixel, cont, result_tree>>

\* InnerStep that leaves a slot of the buffer blank after every row.
InnerStepSkipSlot ==
    /\ pc = "inner"
    /\ ScanCondition
    /\ IF left_pix[1] >= right_pix[2]
         THEN /\ right_index' = right_index + 1
              /\ UNCHANGED <<left_index, last_index, mapping>>
         ELSE IF right_pix[1] >= left_pix[2]
         THEN /\ left_index' = left_index + 1
              /\ UNCHANGED <<right_index, last_index, mapping>>
         ELSE /\ mapping' = [mapping EXCEPT ![last_index + 1] = InnerRow(left_pix, right_pix)]
              /\ last_index' = last_index + 2
              /\ left_index' = IF PixSize(left_pix) <= PixSize(right_pix)
                                 THEN left_index + 1 ELSE left_index
              /\ right_index' = IF PixSize(left_pix) >= PixSize(right_pix)
                                  THEN right_index + 1 ELSE right_index
    /\ UNCHANGED <<call, outcome, left, right, alignment_type, pc, max_n, left_aligned,
                   right_aligned, added_until, add_from, add_to, matching_pix,
                   is_left_pixel, cont, result_tree>>

\* One iteration of the while loop, lines 160-197.
InnerStep ==
    /\ pc = "inner"
    /\ ScanCondition
    /\ IF left_pix[1] >= right_pix[2]
         THEN /\ right_index' = right_index + 1
              /\ UNCHANGED <<left_index, last_index, mapping>>
         ELSE IF right_pix[1] >= left_pix[2]
         THEN /\ left_index' = left_index + 1
              /\ UNCHANGED <<right_index, last_index, mapping>>
         ELSE /\ mapping' = [mapping EXCEPT ![last_index + 1] = InnerRow(left_pix, right_pix)]
              /\ last_index' = last_index + 1
              /\ left_index' = IF PixSize(left_pix) <= PixSize(right_pix)
                                 THEN left_index + 1 ELSE left_index
              /\ right_index' = IF PixSize(left_pix) >= PixSize(right_pix)
                                  THEN right_index + 1 ELSE right_index
    /\ UNCHANGED <<call, outcome, left, right, alignment_type, pc, max_n, left_aligned,
                   right_aligned, added_until, add_from, add_to, matching_pix,
                   is_left_pixel, cont, result_tree>>

\* InnerReturn that returns the whole pre-sized buffer.
InnerReturnWholeBuffer ==
    /\ pc = "inner"
    /\ ~ScanCondition
    /\ pc' = "ret"
    /\ UNCHANGED <<call, outcome, left, right, alignment_type, max_n, left_aligned,
                   right_aligned, left_index, right_index, last_index,
                   added_until, mapping, add_from, add_to, matching_pix,
                   is_left_pixel, cont, result_tree>>

\* The loop's exit, line 198: return mapping[:last_index].T
InnerReturn ==
    /\ pc = "inner"
    /\ ~ScanCondition
    /\ mapping' = SubSeq(mapping, 1, last_index)
    /\ pc' = "ret"
    /\ UNCHANGED <<call, outcome, left, right, alignment_type, max_n, left_aligned,
                   right_aligned, left_index, right_index, last_index,
                   added_until, add_from, add_to, matching_pix, is_left_pixel,
                   cont, result_tree>>

\* ---------------------------------------------------- _add_pixels_until
\* add_from & -add_from: the largest power of 2 that divides n, 0 for 0.
RECURSIVE LowBit(_)
LowBit(n) == IF n = 0 THEN 0 ELSE IF n % 2 = 1 THEN 1 ELSE 2 * LowBit(n \div 2)

\* p & 0xAAAAAAAAAAAAAAA for p a power of 2 or 0: an odd bit up to bit 59.
InOddBitMask(p) ==
    p > 0 /\ FloorLog2(p) % 2 = 1 /\ FloorLog2(p) <= MaskTopBit

\* Lines 231-234: the "maximum power of 4 that is a factor of add_from".
MaxP4From(from) ==
    IF InOddBitMask(LowBit(from)) THEN LowBit(from) \div 2 ELSE LowBit(from)

\* Lines 236-238: the maximum power of 4 less than or equal to to - from.
MaxP4To(from, to) ==
    Pow2(FloorLog2(to - from) - (FloorLog2(to - from) % 2))

\* PixelSize without the power-of-4 computation: the whole gap as one pixel.
PixelSizeWholeGap(from, to) == to - from

\* Line 240.
PixelSize(from, to) == Min(MaxP4To(from, to), MaxP4From(from))

\* FillRow with the matching pixel on the other side of the row.
FillRowOtherSide(from, size, pix, side) ==
    IF side = LEFT_SIDE THEN Row(NONE_PIX, pix, <<from, from + size>>)
                        ELSE Row(pix, NONE_PIX, <<from, from + size>>)

\* The row one iteration appends, lines 241-245.
FillRow(from, size, pix, side) ==
    IF side = LEFT_SIDE THEN Row(pix, NONE_PIX, <<from, from + size>>)
                        ELSE Row(NONE_PIX, pix, <<from, from + size>>)

\* The call: the callee's arguments and what the caller does on its return.
CallAddPixelsUntil(from, to, pix, side, c) ==
    /\ add_from' = from
    /\ add_to' = to
    /\ matching_pix' = pix
    /\ is_left_pixel' = side
    /\ cont' = c
    /\ pc' = "fill"
    /\ UNCHANGED <<mapping, added_until, left_index, right_index>>

\* The caller's code without (or after) a call of _add_pixels_until: append
\* rows, set added_until and the cursors, go on at c.pc.
Continue(c) ==
    /\ mapping' = AppendRows(mapping, c.rows)
    /\ added_until' = c.until
    /\ left_index' = c.li
    /\ right_index' = c.ri
    /\ pc' = c.pc
    /\ add_from' = 0
    /\ add_to' = 0
    /\ matching_pix' = NONE_PIX
    /\ is_left_pixel' = FALSE
    /\ cont' = NoCont

\* One iteration of the while loop, lines 230-246.
AddPixelsStep ==
    /\ pc = "fill"
    /\ add_from < add_to
    /\ mapping' = AppendRow(mapping,
                      FillRow(add_from, PixelSize(add_from, add_to),
                              matching_pix, is_left_pixel))
    /\ add_from' = add_from + PixelSize(add_from, add_to)
    /\ UNCHANGED <<call, outcome, left, right, alignment_type, pc, max_n, left_aligned,
                   right_aligned, left_index, right_index, last_index,
                   added_until, add_to, matching_pix, is_left_pixel, cont,
                   result_tree>>

\* The loop's exit: back in the caller.
AddPixelsReturn ==
    /\ pc = "fill"
    /\ ~(add_from < add_to)
    /\ Continue(cont)
    /\ UNCHANGED <<call, outcome, left, right, alignment_type, max_n, left_aligned,
                   right_aligned, last_index, result_tree>>

\* -------------------------------------------------- perform_align_trees
Cont(rows, until, li, ri, to) ==
    [rows |-> rows, until |-> until, li |-> li, ri |-> ri, pc |-> to]

\* NoOverlap without the rows for the lagging pixel.
NoOverlapSkip(pix, side, include_all, li, ri) ==
    Continue([rows |-> <<>>, until |-> added_until, li |-> li, ri |-> ri,
              pc |-> "scan"])

\* Lines 321-346: no overlap; `pix` is the pixel of the side that lags, with
\* the cursors li, ri after the iteration.
NoOverlap(pix, side, include_all, li, ri) ==
    IF include_all /\ added_until <= pix[1]
      THEN Continue(Cont(<<FillRow(pix[1], PixSize(pix), pix, side)>>,
                         pix[2], li, ri, "scan"))
    ELSE IF include_all /\ added_until < pix[2]
      THEN CallAddPixelsUntil(added_until, pix[2], pix, side,
                              Cont(<<>>, pix[2], li, ri, "scan"))
    ELSE Continue(Cont(<<>>, added_until, li, ri, "scan"))

\* Contained with the containing pixel taken as the aligned one.
ContainedCoarser(small, big, side, include_all, li, ri) ==
    Continue([rows |-> <<IF side = LEFT_SIDE THEN Row(big, small, big)
                                             ELSE Row(small, big, big)>>,
              until |-> small[2], li |-> li, ri |-> ri, pc |-> "scan"])

\* Lines 356-376: overlap with `small` strictly smaller than `big`; `side` is
\* big's side, include_all whether big's tree is to be covered.
Contained(small, big, side, include_all, li, ri) ==
    LET row == IF side = LEFT_SIDE THEN Row(big, small, small)
                                   ELSE Row(small, big, small)
    IN  IF include_all /\ small[1] > big[1] /\ small[1] > added_until
          THEN CallAddPixelsUntil(Max(added_until, big[1]), small[1], big, side,
                                  Cont(<<row>>, small[2], li, ri, "scan"))
          ELSE Continue(Cont(<<row>>, small[2], li, ri, "scan"))

\* One iteration of the while loop, lines 318-376.
ScanStep ==
    /\ pc = "scan"
    /\ ScanCondition
    /\ IF left_pix[1] >= right_pix[2]
         THEN NoOverlap(right_pix, RIGHT_SIDE, include_all_right,
                        left_index, right_index + 1)
       ELSE IF right_pix[1] >= left_pix[2]
         THEN NoOverlap(left_pix, LEFT_SIDE, include_all_left,
                        left_index + 1, right_index)
       ELSE IF PixSize(left_pix) = PixSize(right_pix)
         THEN Continue(Cont(<<Row(left_pix, right_pix, left_pix)>>, left_pix[2],
                            left_index + 1, right_index + 1, "scan"))
       ELSE IF PixSize(left_pix) < PixSize(right_pix)
         THEN Contained(left_pix, right_pix, RIGHT_SIDE, include_all_right,
                        left_index + 1, right_index)
       ELSE Contained(right_pix, left_pix, LEFT_SIDE, include_all_left,
                      left_index, right_index + 1)
    /\ UNCHANGED <<call, outcome, left, right, alignment_type, max_n, left_aligned,
                   right_aligned, last_index, result_tree>>

\* ------------------------------------------------ _add_remaining_pixels
\* VerbatimRows that starts one pixel late.
VerbatimRowsSkipFirst(pixel_list, index, side) ==
    [i \in 1..(Len(pixel_list) - index - 1) |->
        Row(IF side THEN pixel_list[index + 1 + i] ELSE NONE_PIX,
            IF side THEN NONE_PIX ELSE pixel_list[index + 1 + i],
            pixel_list[index + 1 + i])]

\* Lines 283-289: one row per pixel of pixel_list from `index` (0-based) on.
VerbatimRows(pixel_list, index, side) ==
    [i \in 1..(Len(pixel_list) - index) |->
        FillRow(pixel_list[index + i][1], PixSize(pixel_list[index + i]),
                pixel_list[index + i], side)]

\* AddRemainingPixels that emits a partially covered first pixel whole.
AddRemainingPixelsNoSplit(pixel_list, index, side, to) ==
    LET pix == pixel_list[index + 1]
    IN  IF added_until >= pix[2]
          THEN Continue(Cont(VerbatimRows(pixel_list, index + 1, side),
                             added_until, left_index, right_index, to))
        ELSE Continue(Cont(VerbatimRows(pixel_list, index, side),
                           added_until, left_index, right_index, to))

\* Lines 277-289, then the caller goes on at `to`.
AddRemainingPixels(pixel_list, index, side, to) ==
    LET pix == pixel_list[index + 1]
    IN  IF pix[1] < added_until /\ added_until < pix[2]
          THEN CallAddPixelsUntil(added_until, pix[2], pix, side,
                   Cont(VerbatimRows(pixel_list, index + 1, side), added_until,
                        left_index, right_index, to))
        ELSE IF added_until >= pix[2]
          THEN Continue(Cont(VerbatimRows(pixel_list, index + 1, side),
                             added_until, left_index, right_index, to))
        ELSE Continue(Cont(VerbatimRows(pixel_list, index, side),
                           added_until, left_index, right_index, to))

\* perform_align_trees after the loop, lines 380-381.
RemainingRight ==
    /\ pc = "scan"
    /\ ~ScanCondition
    /\ IF include_all_right /\ right_index < Len(right_aligned)
         THEN AddRemainingPixels(right_aligned, right_index, RIGHT_SIDE, "rest_left")
         ELSE Continue(Cont(<<>>, added_until, left_index, right_index, "rest_left"))
    /\ UNCHANGED <<call, outcome, left, right, alignment_type, max_n, left_aligned,
                   right_aligned, last_index, result_tree>>

\* perform_align_trees, lines 382-384.
RemainingLeft ==
    /\ pc = "rest_left"
    /\ IF include_all_left /\ left_index < Len(left_aligned)
         THEN AddRemainingPixels(left_aligned, left_index, LEFT_SIDE, "ret")
         ELSE Continue(Cont(<<>>, added_until, left_index, right_index, "ret"))
    /\ UNCHANGED <<call, outcome, left, right, alignment_type, max_n, left_aligned,
                   right_aligned, last_index, result_tree>>

\* ------------------------------------------------- align_trees, the end
\* Lines 100-103: the aligned tree is columns 4:6 of the mapping.
ResultTree(m) == [i \in 1..Len(m) |-> RowAligned(m[i])]

Return ==
    /\ pc = "ret"
    /\ result_tree' = ResultTree(mapping)
    /\ pc' = "done"
    /\ UNCHANGED <<call, outcome, left, right, alignment_type, max_n, left_aligned,
                   right_aligned, left_index, right_index, last_index,
                   added_until, mapping, add_from, add_to, matching_pix,
                   is_left_pixel, cont>>

Next ==
    \/ AlignTrees
    \/ InnerStep
    \/ InnerReturn
    \/ ScanStep
    \/ AddPixelsStep
    \/ AddPixelsReturn
    \/ RemainingRight
    \/ RemainingLeft
    \/ Return

Spec == Init /\ [][Next]_vars

\* align_trees on unchecked arguments.
SpecAny == InitAny /\ [][Next]_vars

\* The program is one thread: it takes its next step whenever it has one.
FairSpec == Spec /\ WF_vars(Next)

\* ================================================================ claims
Range(s) == { s[i] : i \in DOMAIN s }

\* The pixels at the common order an interval sequence covers.
Area(tree) == UNION { tree[i][1]..(tree[i][2] - 1) : i \in DOMAIN tree }

Overlap(p, q) == p[1] < q[2] /\ q[1] < p[2]
Inside(p, q) == q[1] <= p[1] /\ p[2] <= q[2]

RECURSIVE IsPow4(_)
IsPow4(n) == n = 1 \/ (n > 1 /\ n % 4 = 0 /\ IsPow4(n \div 4))

\* One tile: a power-of-4 length, the start a multiple of it.
IsPixel(p) == p[1] >= 0 /\ IsPow4(PixSize(p)) /\ p[1] % PixSize(p) = 0

IsWellFormed(tree) == IsSortedDisjoint(tree) /\ \A i \in DOMAIN tree : IsPixel(tree[i])

\* The rows emitted so far (in the inner scan, the written part of the buffer).
Rows == IF pc = "inner" THEN SubSeq(mapping, 1, last_index) ELSE mapping

IsGapRow(row) ==
    /\ RowLeft(row) = NONE_PIX \/ RowRight(row) = NONE_PIX
    /\ RowAligned(row) # RowLeft(row)
    /\ RowAligned(row) # RowRight(row)

\* C1: in each of the four modes the aligned intervals align_trees returns,
\* in row order, are sorted ascending by start, pairwise disjoint, and each
\* has a power-of-4 length with its start a multiple of that length.
C1_AlignedTreeWellFormed ==
    pc = "done" => IsWellFormed(result_tree)

C1_Witness ==
    /\ pc = "done"
    /\ alignment_type = OUTER
    /\ Len(result_tree) >= 4
    /\ \E i \in DOMAIN mapping : IsGapRow(mapping[i])

\* C2: align_trees terminates and returns a result for every pair of
\* well-formed trees in every mode, a coarse pixel at interval coordinate 0
\* that contains a finer pixel not at 0 included.  (Checked under FairSpec.
\* Where it fails, AddPixelsStep stays enabled with add_from = 0 and
\* PixelSize = 0: the loop runs on; only the recorded rows stop at MaxRows.)
C2_Terminates == <>(pc = "done")

\* C3: the aligned tiles of a LEFT alignment cover exactly the area of the
\* left tree, those of a RIGHT alignment exactly the area of the right tree.
C3_LeftRightCoverage ==
    pc = "done" =>
        /\ alignment_type = LEFT => Area(result_tree) = Area(left_aligned)
        /\ alignment_type = RIGHT => Area(result_tree) = Area(right_aligned)

C3_Witness ==
    /\ pc = "done"
    /\ alignment_type = LEFT
    /\ Area(left_aligned) # Area(right_aligned)
    /\ Area(left_aligned) \cap Area(right_aligned) # {}
    /\ \E i \in DOMAIN mapping : IsGapRow(mapping[i])
    /\ \E i \in DOMAIN mapping :
          RowRight(mapping[i]) = NONE_PIX /\ RowAligned(mapping[i]) = RowLeft(mapping[i])

\* C4: the aligned tiles of an OUTER alignment cover exactly the union of
\* the areas of the left tree and of the right tree at the common order.
C4_OuterCoverage ==
    (pc = "done" /\ alignment_type = OUTER) =>
        Area(result_tree) = Area(left_aligned) \cup Area(right_aligned)

C4_Witness ==
    /\ pc = "done"
    /\ alignment_type = OUTER
    /\ Area(left_aligned) \ Area(right_aligned) # {}
    /\ Area(right_aligned) \ Area(left_aligned) # {}
    /\ \E i \in DOMAIN mapping :
          IsGapRow(mapping[i]) /\ RowLeft(mapping[i]) = NONE_PIX
    /\ \E i \in DOMAIN mapping :
          RowRight(mapping[i]) = NONE_PIX /\ RowAligned(mapping[i]) = RowLeft(mapping[i])

\* C5: in an INNER alignment the left pixels of the rows are exactly the
\* left-tree pixels that overlap a right-tree pixel, and the aligned tiles
\* cover exactly the intersection of the two areas.
C5_InnerLeftColumns ==
    (pc = "done" /\ alignment_type = INNER) =>
        /\ { RowLeft(mapping[i]) : i \in DOMAIN mapping } =
             { l \in Range(left_aligned) :
                 \E r \in Range(right_aligned) : Overlap(l, r) }
        /\ Area(result_tree) = Area(left_aligned) \cap Area(right_aligned)

C5_Witness ==
    /\ pc = "done"
    /\ alignment_type = INNER
    /\ Len(mapping) >= 2
    /\ \E l \in Range(left_aligned) :
          \A r \in Range(right_aligned) : ~Overlap(l, r)
    /\ \E i \in DOMAIN mapping : RowAligned(mapping[i]) # RowLeft(mapping[i])

\* C6: in INNER mode every row written by perform_inner_align_trees carries
\* a pixel of the left tree and a pixel of the right tree, never the -1 pair.
C6_InnerNoAbsentSide ==
    alignment_type = INNER =>
        \A i \in DOMAIN Rows :
            /\ RowLeft(Rows[i]) # NONE_PIX
            /\ RowRight(Rows[i]) # NONE_PIX
            /\ RowLeft(Rows[i]) \in Range(left_aligned)
            /\ RowRight(Rows[i]) \in Range(right_aligned)

C6_Witness ==
    /\ pc = "inner"
    /\ last_index >= 2
    /\ Len(left_aligned) # Len(right_aligned)

\* C7: the INNER alignment of a tree with itself has one row per pixel of
\* the tree, in tree order, with left = right = aligned, and the aligned tree
\* is the input tree.
C7_InnerSelfAlignment ==
    (pc = "done" /\ alignment_type = INNER /\ left = right) =>
        /\ mapping = [i \in DOMAIN left.tree |->
                         Row(left.tree[i], left.tree[i], left.tree[i])]
        /\ result_tree = left.tree

C7_Witness ==
    /\ pc = "done"
    /\ alignment_type = INNER
    /\ left = right
    /\ Len(left.tree) = MaxTiles
    /\ \E i, j \in DOMAIN left.tree : PixSize(left.tree[i]) # PixSize(left.tree[j])

\* C8: in every mode a row with both a left and a right pixel has the smaller
\* of the two as its aligned pixel (both, when they have the same size); the
\* aligned pixel is never larger than either.
C8_AlignedIsFiner ==
    \A i \in DOMAIN Rows :
        LET l == RowLeft(Rows[i])
            r == RowRight(Rows[i])
            a == RowAligned(Rows[i])
        IN  (l # NONE_PIX /\ r # NONE_PIX) =>
                /\ PixSize(l) < PixSize(r) => a = l
                /\ PixSize(r) < PixSize(l) => a = r
                /\ PixSize(l) = PixSize(r) => (a = l /\ a = r)
                /\ PixSize(a) <= PixSize(l)
                /\ PixSize(a) <= PixSize(r)

C8_Witness ==
    /\ pc = "done"
    /\ alignment_type = RIGHT
    /\ \E i \in DOMAIN mapping :
          /\ RowLeft(mapping[i]) # NONE_PIX
          /\ PixSize(RowLeft(mapping[i])) < PixSize(RowRight(mapping[i]))
    /\ \E i \in DOMAIN mapping :
          /\ RowLeft(mapping[i]) # NONE_PIX
          /\ RowLeft(mapping[i]) = RowRight(mapping[i])

\* A left pixel that strictly contains right pixels which cover only a part
\* of it.
PartlyCovered(l) ==
    /\ \E r \in Range(right_aligned) : Inside(r, l) /\ r # l
    /\ Area(<<l>>) \ Area(right_aligned) # {}

\* C9: in a LEFT alignment every left pixel L that strictly contains right
\* pixels covering only a part of it gets one row per contained right pixel
\* (left = L, aligned = that right pixel) and rows with left = L and the right
\* side absent, whose aligned pixels are tiles that fill exactly the part of L
\* no right pixel covers; this at any position of L, pixel 0 included.
C9_LeftGapFill ==
    alignment_type = LEFT =>
        /\ \A i \in DOMAIN Rows :
              RowRight(Rows[i]) = NONE_PIX =>
                  /\ RowLeft(Rows[i]) \in Range(left_aligned)
                  /\ IsPixel(RowAligned(Rows[i]))
                  /\ Inside(RowAligned(Rows[i]), RowLeft(Rows[i]))
                  /\ \A r \in Range(right_aligned) : ~Overlap(RowAligned(Rows[i]), r)
        /\ pc = "done" =>
              \A l \in Range(left_aligned) :
                  PartlyCovered(l) =>
                      LET of_l == { i \in DOMAIN mapping : RowLeft(mapping[i]) = l }
                      IN  /\ { RowRight(mapping[i]) : i \in of_l } \ {NONE_PIX} =
                               { r \in Range(right_aligned) : Inside(r, l) }
                          /\ \A i \in of_l :
                                RowRight(mapping[i]) # NONE_PIX =>
                                    RowAligned(mapping[i]) = RowRight(mapping[i])
                          /\ UNION { Area(<<RowAligned(mapping[i])>>) : i \in of_l } =
                               Area(<<l>>)

C11_InputsUnchanged == [][left' = left /\ right' = right]_vars

\* A finished call whose trees have different orders: the shifted copy of the
\* coarser tree differs from the tree itself.
C11_Witness ==
    /\ pc = "done"
    /\ left.tree # <<>>
    /\ right.tree # <<>>
    /\ left.tree_order < right.tree_order
    /\ left_aligned # left.tree
    /\ right_aligned = right.tree

\* ------------------------------------------- _add_pixels_until on its own
\* The largest end of a gap handed to _add_pixels_until.
GapEnd == 16

\* A call _add_pixels_until(added_until, add_to, pix, side) as
\* perform_align_trees makes it: the gap starts where the coverage so far
\* ends, and on return the caller sets added_until to the gap's end.
InitGap ==
    /\ left = [tree_order |-> 0, tree |-> <<>>]
    /\ right = [tree_order |-> 0, tree |-> <<>>]
    /\ alignment_type = OUTER
    /\ pc = "fill"
    /\ max_n = 0
    /\ left_aligned = <<>>
    /\ right_aligned = <<>>
    /\ left_index = 0
    /\ right_index = 0
    /\ last_index = 0
    /\ mapping = <<>>
    /\ add_from \in 0..GapEnd
    /\ add_to \in add_from..GapEnd
    /\ added_until = add_from
    /\ matching_pix = <<0, 1>>
    /\ is_left_pixel \in BOOLEAN
    /\ cont = [rows |-> <<>>, until |-> add_to, li |-> 0, ri |-> 0, pc |-> "done"]
    /\ result_tree = <<>>
    /\ call = NoCall
    /\ outcome = PENDING

NextGap ==
    \/ AddPixelsStep
    \/ AddPixelsReturn

SpecGap == InitGap /\ [][NextGap]_vars

\* The loop is sequential code: it takes its next step whenever it has one.
FairSpecGap == SpecGap /\ WF_vars(NextGap)

\* The rows _add_pixels_until appends for [from, to), as aligned intervals;
\* like the state machine, at most MaxRows of them.
RECURSIVE AddPixelsUntil(_, _, _)
AddPixelsUntil(from, to, fuel) ==
    IF from >= to \/ fuel = 0 THEN <<>>
    ELSE <<<<from, from + PixelSize(from, to)>>>>
             \o AddPixelsUntil(from + PixelSize(from, to), to, fuel - 1)

\* The gap [GapFrom, GapTo) of the call, read off the state.
GapTo == IF pc = "fill" THEN add_to ELSE added_until
GapFrom ==
    IF pc = "fill" THEN added_until
    ELSE IF mapping = <<>> THEN added_until ELSE RowAligned(mapping[1])[1]

\* The intervals emitted so far.
Emitted == [i \in DOMAIN mapping |-> RowAligned(mapping[i])]

RECURSIVE SumLen(_)
SumLen(s) == IF s = <<>> THEN 0 ELSE PixSize(Head(s)) + SumLen(Tail(s))

\* The largest power of 4 that divides p and is at most room (room >= 1).
LargestPow4(p, room) ==
    CHOOSE s \in 1..room :
        /\ IsPow4(s) /\ p % s = 0
        /\ \A t \in 1..room : (IsPow4(t) /\ p % t = 0) => t <= s

\* ---------------------------------------------------------------- claim C12
\* C12: for every 0 <= from <= to the intervals _add_pixels_until emits are
\* non-empty, contiguous (hence sorted and disjoint), begin at from, and
\* when the call returns end at to with lengths that sum to to - from.
C12_GapTiling ==
    /\ \A i \in DOMAIN Emitted : Emitted[i][1] < Emitted[i][2]
    /\ \A i \in DOMAIN Emitted : i > 1 => Emitted[i][1] = Emitted[i - 1][2]
    /\ Emitted # <<>> => Emitted[1][1] = GapFrom
    /\ pc = "done" =>
          /\ SumLen(Emitted) = GapTo - GapFrom
          /\ IF Emitted = <<>> THEN GapFrom = GapTo
                               ELSE Emitted[Len(Emitted)][2] = GapTo

\* ---------------------------------------------------------------- claim C13
\* C13: _add_pixels_until terminates for every 0 <= from <= to, from = 0
\* included: every iteration of the loop strictly increases the position
\* add_from, and the call returns.
C13_GapTerminates ==
    /\ [][(pc = "fill" /\ pc' = "fill") => add_from' > add_from]_vars
    /\ <>(pc = "done")

\* ---------------------------------------------------------------- claim C14
\* C14: the interval emitted at position p has the length of the largest
\* power of 4 that divides p and is at most to - p (at p = 0 every power of
\* 4 divides p), so it is exactly one tile.
C14_LargestTile ==
    \A i \in DOMAIN Emitted :
        /\ PixSize(Emitted[i]) = LargestPow4(Emitted[i][1], GapTo - Emitted[i][1])
        /\ IsPixel(Emitted[i])

\* ---------------------------------------------------------------- claim C15
\* C15: the decomposition is idempotent: _add_pixels_until run on an
\* interval it has emitted emits exactly that interval.
C15_GapIdempotent ==
    \A i \in DOMAIN Emitted :
        AddPixelsUntil(Emitted[i][1], Emitted[i][2], MaxRows) = <<Emitted[i]>>

\* =============================================== pixel_math/validators.py
\* The longest list or tuple of values handed to a validator.
MaxLen == 3
\* The most vertices of a polygon.
MaxVerts == 4

\* ValidatorsErrors, lines 14-21.
INVALID_DEC == "declination must be in the -90.0 to 90.0 degree range"
INVALID_NUM_VERTICES == "polygon must contain a minimum of 3 vertices"
DUPLICATE_VERTICES == "polygon has duplicated vertices"
DEGENERATE_POLYGON == "polygon is degenerate"
INVALID_RADEC_RANGE == "invalid ra or dec range"
INVALID_COORDS_SHAPE == "invalid coordinates shape"
INVALID_CONCAVE_SHAPE == "polygon must be convex"

\* How a call ends: it returns, or it raises an exception with a message.
Accepted == [raised |-> "", message |-> ""]
ValueError(msg) == [raised |-> "ValueError", message |-> msg]
IndexError == [raised |-> "IndexError", message |-> "tuple index out of range"]

\* A float is a number or NaN; a comparison with NaN is false.
Num(x) == [nan |-> FALSE, v |-> x]
NaN == [nan |-> TRUE, v |-> 0]
Ge(x, y) == ~x.nan /\ ~y.nan /\ x.v >= y.v
Le(x, y) == ~x.nan /\ ~y.nan /\ x.v <= y.v
Lt(x, y) == ~x.nan /\ ~y.nan /\ x.v < y.v

\* An optional argument.
None == [none |-> TRUE, v |-> <<>>]
Some(x) == [none |-> FALSE, v |-> x]

\* Line 47.
lower_bound == Num(-90)
upper_bound == Num(90)

\* validate_declination_values with np.any in the place of np.all.
validate_declination_values_any(dec) ==
    IF ~(\E i \in DOMAIN dec : Ge(dec[i], lower_bound) /\ Le(dec[i], upper_bound))
      THEN ValueError(INVALID_DEC)
      ELSE Accepted

\* Lines 46-49; dec is the array np.array(dec), one element for a scalar.
validate_declination_values(dec) ==
    IF ~(\A i \in DOMAIN dec : Ge(dec[i], lower_bound) /\ Le(dec[i], upper_bound))
      THEN ValueError(INVALID_DEC)
      ELSE Accepted

\* ------------------------------------------------------------ validate_box
\* Line 115: len(ra) != 2 or len(ra) != len(set(ra)).
RaRangeInvalid(ra) == Len(ra) # 2 \/ Len(ra) # Cardinality(Range(ra))

\* Line 118 with > in the place of >=: equal bounds pass.
DecRangeInvalidLax(dec) == Len(dec) # 2 \/ Lt(dec[2], dec[1])

\* Line 118: len(dec) != 2 or dec[0] >= dec[1].
DecRangeInvalid(dec) == Len(dec) # 2 \/ Ge(dec[1], dec[2])

\* Lines 113-122.  The declination check of line 120 raises before the
\* range error of line 122.
validate_box(ra, dec) ==
    LET invalid_range == \/ ~ra.none /\ RaRangeInvalid(ra.v)
                         \/ ~dec.none /\ DecRangeInvalid(dec.v)
    IN  IF ~dec.none /\ validate_declination_values(dec.v) # Accepted
          THEN validate_declination_values(dec.v)
        ELSE IF (ra.none /\ dec.none) \/ invalid_range
          THEN ValueError(INVALID_RADEC_RANGE)
        ELSE Accepted

\* -------------------------------------------------------- validate_polygon
\* cos and sin of a right ascension on the grid 0, 90, 180 degrees.
CosDeg(ra) == IF ra = 0 THEN 1 ELSE IF ra = 90 THEN 0 ELSE -1
SinDeg(ra) == IF ra = 90 THEN 1 ELSE 0

\* hp.ang2vec(ra, dec, lonlat=True), line 87, for a declination of 0, 45 or
\* 90 degrees: the direction (cos dec cos ra, cos dec sin ra, sin dec) of
\* the vertex, multiplied by sqrt(2) at 45 degrees to stay in the integers.
\* A positive factor changes neither the sign of a triple product nor
\* whether it is zero.
Ang2Vec(vertex) ==
    IF vertex[2].v = 90 THEN <<0, 0, 1>>
    ELSE IF vertex[2].v = 45 THEN <<CosDeg(vertex[1]), SinDeg(vertex[1]), 1>>
    ELSE <<CosDeg(vertex[1]), SinDeg(vertex[1]), 0>>

\* np.cross and ndarray.dot, lines 91-92.
Cross(a, b) ==
    <<a[2] * b[3] - a[3] * b[2], a[3] * b[1] - a[1] * b[3], a[1] * b[2] - a[2] * b[1]>>
Dot(a, b) == a[1] * b[1] + a[2] * b[2] + a[3] * b[3]

\* hnd of loop index i (from 0), lines 91-92.
Hnd(xyz, i) ==
    Dot(Cross(xyz[i + 1], xyz[((i + 1) % Len(xyz)) + 1]), xyz[((i + 2) % Len(xyz)) + 1])

\* np.isclose(hnd, 0, atol=1e-10), line 93.  On the grid a triple product
\* is zero or at least 1/(2 sqrt 2) in size, so it is close to 0 exactly if
\* it is 0.
IsCloseToZero(hnd) == hnd = 0

\* The loop of lines 90-98 from index i on, with flip as set at index 0.
RECURSIVE CheckFrom(_, _, _)
CheckFrom(xyz, i, flip) ==
    IF i = Len(xyz) THEN Accepted
    ELSE IF IsCloseToZero(Hnd(xyz, i)) THEN ValueError(DEGENERATE_POLYGON)
    ELSE IF i = 0 THEN CheckFrom(xyz, 1, IF Hnd(xyz, 0) < 0 THEN -1 ELSE 1)
    ELSE IF flip * Hnd(xyz, i) <= 0 THEN ValueError(INVALID_CONCAVE_SHAPE)
    ELSE CheckFrom(xyz, i + 1, flip)

\* check_polygon_is_valid with all the degeneracy tests before the first
\* convexity test.
check_polygon_degeneracy_first(vertices) ==
    LET xyz == [i \in DOMAIN vertices |-> Ang2Vec(vertices[i])]
    IN  IF \E i \in 0..(Len(xyz) - 1) : IsCloseToZero(Hnd(xyz, i))
          THEN ValueError(DEGENERATE_POLYGON)
          ELSE CheckFrom(xyz, 0, 0)

\* Lines 87-98.
check_polygon_is_valid(vertices) ==
    CheckFrom([i \in DOMAIN vertices |-> Ang2Vec(vertices[i])], 0, 0)

\* np.array(vertices).shape, line 63-64: an empty list gives a
\* one-dimensional array of shape (0,).
Shape(vertices) ==
    IF vertices = <<>> THEN <<0>> ELSE <<Len(vertices), Len(vertices[1])>>

\* Lines 63-72.  shape[1] of a one-dimensional shape is an IndexError.
validate_polygon(vertices) ==
    IF Len(Shape(vertices)) < 2 THEN IndexError
    ELSE IF Shape(vertices)[2] # 2 THEN ValueError(INVALID_COORDS_SHAPE)
    ELSE IF validate_declination_values(
                [i \in DOMAIN vertices |-> vertices[i][2]]) # Accepted
      THEN ValueError(INVALID_DEC)
    ELSE IF Len(vertices) < 3 THEN ValueError(INVALID_NUM_VERTICES)
    ELSE IF Len(vertices) # Cardinality(Range(vertices))
      THEN ValueError(DUPLICATE_VERTICES)
    ELSE check_polygon_is_valid(vertices)

\* ------------------------------------------------------ calls of validators
\* Sequences of at most n elements of S.
SeqUpTo(S, n) == UNION { [1..k -> S] : k \in 0..n }

\* Declinations on both sides of the two bounds, and NaN.
DecValues == { Num(-91), Num(-90), Num(0), Num(90), Num(91), NaN }
RaValues == { 10, 20 }

\* The vertices of a polygon: a grid of right ascensions and declinations,
\* one declination out of range.
Vertices == { <<ra, Num(dec)>> : ra \in {0, 90, 180}, dec \in {0, 45, 90, 91} }

\* The variables of align_trees, which a validator does not touch.
alignment_vars ==
    <<left, right, alignment_type, pc, max_n, left_aligned, right_aligned,
      left_index, right_index, last_index, added_until, mapping,
      add_from, add_to, matching_pix, is_left_pixel, cont, result_tree>>

\* No alignment is under way.
NoAlignment ==
    /\ left = [tree_order |-> 0, tree |-> <<>>]
    /\ right = [tree_order |-> 0, tree |-> <<>>]
    /\ alignment_type = INNER
    /\ pc = "none"
    /\ max_n = 0
    /\ left_aligned = <<>>
    /\ right_aligned = <<>>
    /\ left_index = 0
    /\ right_index = 0
    /\ last_index = 0
    /\ added_until = 0
    /\ mapping = <<>>
    /\ add_from = 0
    /\ add_to = 0
    /\ matching_pix = NONE_PIX
    /\ is_left_pixel = FALSE
    /\ cont = NoCont
    /\ result_tree = <<>>

\* A call of validate_declination_values with a list or with a scalar.
DecCall ==
    \/ \E d \in SeqUpTo(DecValues, MaxLen) :
          call = [fn |-> "validate_declination_values", dec |-> d, scalar |-> FALSE]
    \/ \E x \in DecValues :
          call = [fn |-> "validate_declination_values", dec |-> <<x>>, scalar |-> TRUE]

\* A call of validate_box; each range is None or a tuple.
BoxCall ==
    \E r \in {None} \cup { Some(t) : t \in SeqUpTo(RaValues, MaxLen) } :
        \E d \in {None} \cup { Some(t) : t \in SeqUpTo(DecValues, MaxLen) } :
            call = [fn |-> "validate_box", ra |-> r, dec |-> d]

\* A call of validate_polygon.
PolygonCall ==
    \E v \in SeqUpTo(Vertices, MaxVerts) :
        call = [fn |-> "validate_polygon", vertices |-> v]

InitVal ==
    /\ NoAlignment
    /\ DecCall \/ BoxCall \/ PolygonCall
    /\ outcome = PENDING

ValidateDeclinationValues ==
    /\ call.fn = "validate_declination_values"
    /\ outcome = PENDING
    /\ outcome' = validate_declination_values(call.dec)
    /\ UNCHANGED <<call, alignment_vars>>

ValidateBox ==
    /\ call.fn = "validate_box"
    /\ outcome = PENDING
    /\ outcome' = validate_box(call.ra, call.dec)
    /\ UNCHANGED <<call, alignment_vars>>

ValidatePolygon ==
    /\ call.fn = "validate_polygon"
    /\ outcome = PENDING
    /\ outcome' = validate_polygon(call.vertices)
    /\ UNCHANGED <<call, alignment_vars>>

NextVal ==
    \/ ValidateDeclinationValues
    \/ ValidateBox
    \/ ValidatePolygon

SpecVal == InitVal /\ [][NextVal]_vars

\* ------------------------------------------------- claims on the validators
\* A finished call of the validator fn.
Finished(fn) == call.fn = fn /\ outcome # PENDING

\* A declination within [-90, 90].
InDecRange(x) == ~x.nan /\ -90 <= x.v /\ x.v <= 90

\* ---------------------------------------------------------------- claim C16
\* C16 as stated: validate_declination_values raises the declination error
\* if and only if at least one value is below -90 or above 90, and accepts
\* otherwise.
C16_RaisesIffBelowOrAbove ==
    Finished("validate_declination_values") =>
        IF \E i \in DOMAIN call.dec :
               Lt(call.dec[i], lower_bound) \/ Lt(upper_bound, call.dec[i])
          THEN outcome = ValueError(INVALID_DEC)
          ELSE outcome = Accepted

\* C16 amended: validate_declination_values raises the declination error if
\* and only if at least one value is not within [-90, 90], that is below
\* -90, above 90 or NaN; a scalar or a list (the empty one included) whose
\* values all lie in [-90, 90] is accepted.
C16_RaisesIffNotInRange ==
    Finished("validate_declination_values") =>
        IF \A i \in DOMAIN call.dec : InDecRange(call.dec[i])
          THEN outcome = Accepted
          ELSE outcome = ValueError(INVALID_DEC)

\* A rejected list with a NaN and no value below -90 or above 90.
C16_Witness ==
    /\ Finished("validate_declination_values")
    /\ \E i \in DOMAIN call.dec : call.dec[i].nan
    /\ \A i \in DOMAIN call.dec : call.dec[i].nan \/ InDecRange(call.dec[i])
    /\ outcome = ValueError(INVALID_DEC)

\* ---------------------------------------------------------------- claim C17
\* C17: validate_box accepts exactly when at least one of ra and dec is
\* given, a given ra has exactly two distinct bounds, and a given dec has
\* exactly two bounds, strictly ascending and each within [-90, 90]; every
\* other call raises a ValueError, and ra = None, dec = None as well as a ra
\* with two equal bounds (dec = None) raise the invalid-range error.
C17_BoxAcceptedIff ==
    Finished("validate_box") =>
        /\ outcome = Accepted <=>
              /\ ~call.ra.none \/ ~call.dec.none
              /\ ~call.ra.none =>
                    Len(call.ra.v) = 2 /\ call.ra.v[1] # call.ra.v[2]
              /\ ~call.dec.none =>
                    /\ Len(call.dec.v) = 2
                    /\ InDecRange(call.dec.v[1])
                    /\ InDecRange(call.dec.v[2])
                    /\ call.dec.v[1].v < call.dec.v[2].v
        /\ outcome # Accepted => outcome.raised = "ValueError"
        /\ (call.ra.none /\ call.dec.none) =>
              outcome = ValueError(INVALID_RADEC_RANGE)
        /\ (call.dec.none /\ ~call.ra.none /\ Len(call.ra.v) = 2
               /\ call.ra.v[1] = call.ra.v[2]) =>
              outcome = ValueError(INVALID_RADEC_RANGE)

\* An accepted box with both ranges given.
C17_Witness ==
    /\ Finished("validate_box")
    /\ ~call.ra.none
    /\ ~call.dec.none
    /\ outcome = Accepted

\* ---------------------------------------------------------------- claim C18
\* The triple products of the cyclic consecutive vertex triples, as a
\* function of the loop index 0 .. n-1.
TripleProducts(vertices) ==
    [i \in 0..(Len(vertices) - 1) |->
        Hnd([j \in DOMAIN vertices |-> Ang2Vec(vertices[j])], i)]

\* At least 3 distinct vertices with valid declinations, one triple with a
\* triple product within tolerance of zero.
HasDegenerateTriple(vertices) ==
    /\ Len(vertices) >= 3
    /\ Len(vertices) = Cardinality(Range(vertices))
    /\ \A i \in DOMAIN vertices : InDecRange(vertices[i][2])
    /\ \E i \in DOMAIN TripleProducts(vertices) :
           IsCloseToZero(TripleProducts(vertices)[i])

\* The index of the first triple with a triple product close to zero.
FirstDegenerate(vertices) ==
    CHOOSE k \in DOMAIN TripleProducts(vertices) :
        /\ IsCloseToZero(TripleProducts(vertices)[k])
        /\ \A j \in 0..(k - 1) : ~IsCloseToZero(TripleProducts(vertices)[j])

\* C18 as stated: a polygon of at least 3 distinct vertices with valid
\* declinations and a triple product within tolerance of zero is rejected
\* with the degenerate-polygon error, whatever the signs of the other
\* triple products.
C18_DegenerateBeforeConvex ==
    (Finished("validate_polygon") /\ HasDegenerateTriple(call.vertices)) =>
        outcome = ValueError(DEGENERATE_POLYGON)

\* C18 amended: such a polygon is always rejected; the triples are tested in
\* index order, degeneracy before convexity for each triple, so the error
\* is the degenerate-polygon error if every triple before the first
\* degenerate one has the sign of triple 0, and the non-convex error if one
\* of them has the opposite sign.
C18_FirstFailingTriple ==
    (Finished("validate_polygon") /\ HasDegenerateTriple(call.vertices)) =>
        LET hnd == TripleProducts(call.vertices)
            k == FirstDegenerate(call.vertices)
        IN  IF \A j \in 1..(k - 1) : (hnd[j] > 0) = (hnd[0] > 0)
              THEN outcome = ValueError(DEGENERATE_POLYGON)
              ELSE outcome = ValueError(INVALID_CONCAVE_SHAPE)

\* A polygon with a degenerate triple, rejected as non-convex at an earlier
\* triple.
C18_Witness ==
    /\ Finished("validate_polygon")
    /\ HasDegenerateTriple(call.vertices)
    /\ outcome = ValueError(INVALID_CONCAVE_SHAPE)

\* ---------------------------------------------------------------- claim C19
\* C19: validate_polygon rejects every list of fewer than 3 vertices with
\* valid declinations, the empty list included, with the too-few-vertices
\* error, and a list of 3 or more such vertices with a repeated (ra, dec)
\* pair with the duplicate-vertices error.
C19_TooFewOrDuplicate ==
    (/\ Finished("validate_polygon")
     /\ \A i \in DOMAIN call.vertices : InDecRange(call.vertices[i][2])) =>
        /\ Len(call.vertices) < 3 =>
              outcome = ValueError(INVALID_NUM_VERTICES)
        /\ (/\ Len(call.vertices) >= 3
            /\ Len(call.vertices) # Cardinality(Range(call.vertices))) =>
              outcome = ValueError(DUPLICATE_VERTICES)

\* =================================== inspection/visualize_catalog.py
\* The order the ranges of the tree and of the viewport are compared at
\* (29 in the code, to_depth29_ranges).
CullOrder == 1
\* The modelled part of the sky at that order: range endpoints 0 .. CullEnd.
CullEnd == 4
\* The most ranges of the viewport's coverage.
MaxMoc == 2

\* perform_filter_by_moc(tree, moc) from tree interval ti and coverage range
\* mi on (both from 0): a two-pointer scan of two sorted interval
\* sequences that marks every tree interval that intersects a range.
RECURSIVE FilterFrom(_, _, _, _, _)
FilterFrom(tree, moc, ti, mi, output) ==
    IF ~(ti < Len(tree) /\ mi < Len(moc)) THEN output
    ELSE IF tree[ti + 1][1] >= moc[mi + 1][2]
      THEN FilterFrom(tree, moc, ti, mi + 1, output)
    ELSE IF moc[mi + 1][1] >= tree[ti + 1][2]
      THEN FilterFrom(tree, moc, ti + 1, mi, output)
    ELSE FilterFrom(tree, moc, ti + 1, mi, [output EXCEPT ![ti + 1] = TRUE])

perform_filter_by_moc(tree, moc) ==
    FilterFrom(tree, moc, 0, 0, [i \in 1..Len(tree) |-> FALSE])

\* np.argsort(ip), line 170, for distinct pixel numbers: the indices of ip
\* in ascending order of pixel number.
ArgSort(ip) ==
    [i \in 1..Len(ip) |->
        CHOOSE j \in 1..Len(ip) :
            Cardinality({ k \in 1..Len(ip) : ip[k] < ip[j] }) = i - 1]

\* a[index]: the elements of a at the given indices, in their order.
Take(a, index) == [i \in 1..Len(index) |-> a[index[i]]]

\* a[mask] for a boolean mask: the elements of a where the mask is true.
RECURSIVE Masked(_, _)
Masked(a, mask) ==
    IF a = <<>> THEN <<>>
    ELSE (IF Head(mask) THEN <<Head(a)>> ELSE <<>>) \o Masked(Tail(a), Tail(mask))

\* PixelTree(np.vstack([ip_sorted, ip_sorted + 1]).T, order=d)
\* .to_depth29_ranges(), lines 172 and 174.
ToDeepRanges(ip_sorted, d) ==
    ShiftTree([i \in 1..Len(ip_sorted) |-> <<ip_sorted[i], ip_sorted[i] + 1>>],
              CullOrder - d)

\* The mask of line 173.
ViewportMask(d, ip, moc) ==
    perform_filter_by_moc(ToDeepRanges(Take(ip, ArgSort(ip)), d), moc)

\* Line 176 with the values taken in their given order, not in the order of
\* the sorted pixels.
CulledEntryUnsortedVals(d, ip, vals, moc) ==
    [ip |-> Masked(Take(ip, ArgSort(ip)), ViewportMask(d, ip, moc)),
     vals |-> Masked(vals, ViewportMask(d, ip, moc))]

\* output_dict[d] of line 176.
CulledEntry(d, ip, vals, moc) ==
    [ip |-> Masked(Take(ip, ArgSort(ip)), ViewportMask(d, ip, moc)),
     vals |-> Masked(Take(vals, ArgSort(ip)), ViewportMask(d, ip, moc))]

\* The pixel numbers of order d whose range lies in the modelled sky.
CullPixels(d) == 0..((CullEnd \div Pow4(CullOrder - d)) - 1)

\* Lists of at most MaxTiles distinct pixels of order d, in any order.
PixelLists(d) ==
    { l \in SeqUpTo(CullPixels(d), MaxTiles) : Len(l) = Cardinality(Range(l)) }

\* A coverage: sorted, disjoint, non-empty ranges at order CullOrder.
IsCoverage(m) ==
    IsSortedDisjoint(m) /\ \A i \in DOMAIN m : m[i][1] < m[i][2]

\* One entry d: (ip, vals) of depth_ipix_d, and the viewport's coverage.
CullCall ==
    \E m \in SeqUpTo((0..CullEnd) \X (0..CullEnd), MaxMoc) :
        /\ IsCoverage(m)
        /\ \E d \in 0..CullOrder :
              \E l \in PixelLists(d) :
                  \E v \in [1..Len(l) -> {0, 1}] :
                      call = [fn |-> "cull_to_fov", d |-> d, ip |-> l,
                                 vals |-> v, moc |-> m]

InitCull ==
    /\ NoAlignment
    /\ CullCall
    /\ outcome = PENDING

\* One turn of the loop of lines 169-176.
CullToFov ==
    /\ call.fn = "cull_to_fov"
    /\ outcome = PENDING
    /\ outcome' = [raised |-> "",
                   ip_viewport_mask |-> ViewportMask(call.d, call.ip, call.moc),
                   output |-> CulledEntry(call.d, call.ip, call.vals, call.moc)]
    /\ UNCHANGED <<call, alignment_vars>>

NextCull == CullToFov

SpecCull == InitCull /\ [][NextCull]_vars

MaxPath == 5

\* A call that returns a value.
Returned(v) == [raised |-> "", value |-> v]

\* HealpixPixel(order, pixel) and INVALID_PIXEL of hipscat.pixel_math.
HealpixPixel(order, pixel) == [order |-> order, pixel |-> pixel]
INVALID_PIXEL == HealpixPixel(-1, -1)

\* A path is a sequence of tokens: the two literals of the pattern of line
\* 85, decimal digits, a separator and a newline (which "." does not match).
NORDER == "Norder="
NPIX == "Npix="
Digits == { "1", "2" }
PathTokens == { NORDER, NPIX, "/", "\n" } \cup Digits
DigitValue(t) == IF t = "1" THEN 1 ELSE 2

\* The positions before the first newline of the path: what ".*" can span.
FirstLine(path) ==
    { i \in DOMAIN path : \A k \in 1..i : path[k] # "\n" }

\* (\d*), greedy: the longest run of digits from position i on.
RECURSIVE DigitRun(_, _)
DigitRun(path, i) ==
    IF i > Len(path) \/ path[i] \notin Digits THEN <<>>
    ELSE <<path[i]>> \o DigitRun(path, i + 1)

\* re.match(r".*Norder=(\d*).*Npix=(\d*).*", path), line 85: whether the
\* pattern matches, and the positions the greedy ".*" choose, the last
\* "Npix=" of the first line and the last "Norder=" before it.
NpixAt(path) ==
    { j \in FirstLine(path) :
        /\ path[j] = NPIX
        /\ \E i \in 1..(j - 1) : path[i] = NORDER
        /\ ~\E k \in FirstLine(path) : k > j /\ path[k] = NPIX }
Matches(path) == NpixAt(path) # {}
NpixPos(path) == CHOOSE j \in NpixAt(path) : TRUE
NorderPos(path) ==
    CHOOSE i \in 1..(NpixPos(path) - 1) :
        /\ path[i] = NORDER
        /\ \A k \in (i + 1)..(NpixPos(path) - 1) : path[k] # NORDER

\* int(s) for a string of decimal digits, s not empty.
RECURSIVE IntOfDigits(_)
IntOfDigits(s) ==
    IF s = <<>> THEN 0
    ELSE 10 * IntOfDigits(SubSeq(s, 1, Len(s) - 1)) + DigitValue(s[Len(s)])

\* Lines 85-89.  int("") raises ValueError.
get_healpix_from_path(path) ==
    IF ~Matches(path) THEN Returned(INVALID_PIXEL)
    ELSE LET order == DigitRun(path, NorderPos(path) + 1)
             pixel == DigitRun(path, NpixPos(path) + 1)
         IN  IF order = <<>> \/ pixel = <<>>
               THEN ValueError("invalid literal for int() with base 10: ''")
               ELSE Returned(HealpixPixel(IntOfDigits(order), IntOfDigits(pixel)))

\* --------------------------------------------------------- pixel_directory
\* 10_000, lines 60 and 183.
DirSize == 10000
\* The significant bits of a Python float (IEEE 754 double): npix / 10_000
\* is a float division, rounded to the nearest float, ties to even.
FloatBits == 53

\* A pixel number k * 10000 + r with k = m * 2^e (m is 0 or 1) and
\* 0 <= r < 10000; the pixel numbers of order 29 end at 12 * 4^29, a little
\* above 2^48 * 10000.
PixelNumber(m, e, r) == [m |-> m, e |-> e, r |-> r]

\* A multiple (m * 2^e + carry) * 10000 of 10000.
Multiple(m, e, carry) == [m |-> m, e |-> e, carry |-> carry]

\* int(npix / 10_000) - k for npix = k * 10000 + r: 0 if the float quotient
\* lies below k + 1, and 1 if it is rounded to k + 1.  For k in
\* [2^P, 2^(P+1)) floats are 2^(P-52) apart, so k + r/10000 is rounded to
\* k + 1 exactly if (10000 - r)/10000 <= 2^(P-53).
FloatCarry(npix) ==
    IF npix.m = 0 \/ FloatBits - npix.e > 14 THEN 0
    ELSE IF (DirSize - npix.r) * Pow2(FloatBits - npix.e) <= DirSize THEN 1
    ELSE 0

\* int(npix / 10_000) * 10_000, lines 60, 183 and (write_metadata.py) 106.
DirOf(npix) == Multiple(npix.m, npix.e, FloatCarry(npix))

\* npix // 10_000 * 10_000: the integer division the docstring names.
DirOfFloorDiv(npix) == Multiple(npix.m, npix.e, 0)

\* Lines 55-67: the Dir value of the directory name, or the ValueError.
pixel_directory(pixel_number, directory_number) ==
    IF ~directory_number.none THEN Returned(directory_number.v)
    ELSE IF ~pixel_number.none THEN Returned(DirOf(pixel_number.v))
    ELSE ValueError(
        "One of pixel_number or directory_number is required to create pixel directory")

\* The Dir value in the file name of pixel_catalog_file, line 183.
pixel_catalog_file(pixel_number) == DirOf(pixel_number)

\* The Dir column of write_partition_info, write_metadata.py line 106.
write_partition_info(pixel_number) == DirOf(pixel_number)

\* ------------------------------------------------------- calls of paths.py
PixelNumbers ==
    { PixelNumber(m, e, r) : m \in {0, 1}, e \in {0, 13, 39, 40, 48},
                             r \in {0, 1, 4999, 9998, 9999} }
DirectoryNumbers == { Multiple(m, e, 0) : m \in {0, 1}, e \in {0, 13} }

PathCall ==
    \E path \in SeqUpTo(PathTokens, MaxPath) :
        call = [fn |-> "get_healpix_from_path", path |-> path]

DirectoryCall ==
    \E n \in {None} \cup { Some(x) : x \in PixelNumbers } :
        \E dir \in {None} \cup { Some(x) : x \in DirectoryNumbers } :
            call = [fn |-> "pixel_directory", pixel_number |-> n,
                    directory_number |-> dir]

InitPaths ==
    /\ NoAlignment
    /\ PathCall \/ DirectoryCall
    /\ outcome = PENDING

GetHealpixFromPath ==
    /\ call.fn = "get_healpix_from_path"
    /\ outcome = PENDING
    /\ outcome' = get_healpix_from_path(call.path)
    /\ UNCHANGED <<call, alignment_vars>>

PixelDirectory ==
    /\ call.fn = "pixel_directory"
    /\ outcome = PENDING
    /\ outcome' = pixel_directory(call.pixel_number, call.directory_number)
    /\ UNCHANGED <<call, alignment_vars>>

NextPaths ==
    \/ GetHealpixFromPath
    \/ PixelDirectory

SpecPaths == InitPaths /\ [][NextPaths]_vars

\* ---------------------------------------------------------------- claim C21
\* The digit strings that follow some "Norder=" of the path, and some
\* "Npix=" after it.
NorderNpixDigits(path) ==
    { <<DigitRun(path, i + 1), DigitRun(path, j + 1)>> :
        <<i, j>> \in { ij \in (DOMAIN path) \X (DOMAIN path) :
                          /\ ij[1] < ij[2]
                          /\ path[ij[1]] = NORDER
                          /\ path[ij[2]] = NPIX } }

\* C21: get_healpix_from_path never raises: it returns the HealpixPixel of
\* the digits that follow "Norder=" and "Npix=" in the path, or
\* INVALID_PIXEL when the path has not that form, "Norder=" or "Npix="
\* without digits included.
C21_NeverRaises ==
    Finished("get_healpix_from_path") =>
        /\ outcome.raised = ""
        /\ \/ outcome.value = INVALID_PIXEL
           \/ \E d \in NorderNpixDigits(call.path) :
                 /\ d[1] # <<>>
                 /\ d[2] # <<>>
                 /\ outcome.value = HealpixPixel(IntOfDigits(d[1]), IntOfDigits(d[2]))

\* ---------------------------------------------------------------- claim C22
\* C22: pixel_directory raises ValueError if and only if pixel_number and
\* directory_number are both None; a given directory_number is the Dir value
\* unchanged; otherwise Dir is the pixel number rounded down to a multiple
\* of 10000, the value pixel_catalog_file and write_partition_info compute.
C22_PixelDirectory ==
    Finished("pixel_directory") =>
        /\ outcome.raised = "ValueError" <=>
              (call.pixel_number.none /\ call.directory_number.none)
        /\ outcome.raised \in {"", "ValueError"}
        /\ ~call.directory_number.none =>
              outcome = Returned(call.directory_number.v)
        /\ (call.directory_number.none /\ ~call.pixel_number.none) =>
              /\ outcome = Returned(DirOfFloorDiv(call.pixel_number.v))
              /\ outcome = Returned(pixel_catalog_file(call.pixel_number.v))
              /\ outcome = Returned(write_partition_info(call.pixel_number.v))

\* ============================ align_trees as a function of its arguments
\* The scans above, run to their end on given trees, for the claims that
\* compare the results of two calls.  A result that `hangs` is that of a
\* call whose _add_pixels_until loop never ends.

\* Lines 230-246: whether the loop goes on for ever (its pixel_size is 0).
RECURSIVE GapHangs(_, _)
GapHangs(from, to) ==
    /\ from < to
    /\ \/ PixelSize(from, to) = 0
       \/ GapHangs(from + PixelSize(from, to), to)

\* _add_pixels_until(from, to, pix, side, mapping): the rows appended.
add_pixels_until(from, to, pix, side) ==
    IF GapHangs(from, to) THEN <<>>
    ELSE LET tiles == AddPixelsUntil(from, to, to - from)
         IN  [i \in DOMAIN tiles |-> FillRow(tiles[i][1], PixSize(tiles[i]), pix, side)]

\* The scan's local state after one more step: rows appended, added_until
\* and the cursors set.
Scanned(s, hangs, rows, until, li, ri) ==
    [hangs |-> s.hangs \/ hangs, mapping |-> s.mapping \o rows,
     added_until |-> until, left_index |-> li, right_index |-> ri]

\* no_overlap that emits the lagging pixel whatever the alignment type.
no_overlap_always(s, pix, side, include_all, li, ri) ==
    IF s.added_until <= pix[1]
      THEN Scanned(s, FALSE, <<FillRow(pix[1], PixSize(pix), pix, side)>>, pix[2], li, ri)
    ELSE IF include_all /\ s.added_until < pix[2]
      THEN Scanned(s, GapHangs(s.added_until, pix[2]),
                   add_pixels_until(s.added_until, pix[2], pix, side), pix[2], li, ri)
    ELSE Scanned(s, FALSE, <<>>, s.added_until, li, ri)

\* Lines 321-346, as NoOverlap.
no_overlap(s, pix, side, include_all, li, ri) ==
    IF include_all /\ s.added_until <= pix[1]
      THEN Scanned(s, FALSE, <<FillRow(pix[1], PixSize(pix), pix, side)>>, pix[2], li, ri)
    ELSE IF include_all /\ s.added_until < pix[2]
      THEN Scanned(s, GapHangs(s.added_until, pix[2]),
                   add_pixels_until(s.added_until, pix[2], pix, side), pix[2], li, ri)
    ELSE Scanned(s, FALSE, <<>>, s.added_until, li, ri)

\* contained with the gap before the small pixel tagged with the small pixel.
contained_gap_of_small(s, small, big, side, include_all, li, ri) ==
    LET row == IF side = LEFT_SIDE THEN Row(big, small, small)
                                   ELSE Row(small, big, small)
        add_from_ == Max(s.added_until, big[1])
    IN  IF include_all /\ small[1] > big[1] /\ small[1] > s.added_until
          THEN Scanned(s, GapHangs(add_from_, small[1]),
                       add_pixels_until(add_from_, small[1], small, side) \o <<row>>,
                       small[2], li, ri)
          ELSE Scanned(s, FALSE, <<row>>, small[2], li, ri)

\* contained that fills the gap before the small pixel in left pixels only.
contained_left_gaps(s, small, big, side, include_all, li, ri) ==
    LET row == IF side = LEFT_SIDE THEN Row(big, small, small)
                                   ELSE Row(small, big, small)
        add_from_ == Max(s.added_until, big[1])
    IN  IF include_all /\ side = LEFT_SIDE /\ small[1] > big[1]
              /\ small[1] > s.added_until
          THEN Scanned(s, GapHangs(add_from_, small[1]),
                       add_pixels_until(add_from_, small[1], big, side) \o <<row>>,
                       small[2], li, ri)
          ELSE Scanned(s, FALSE, <<row>>, small[2], li, ri)

\* Lines 356-376, as Contained.
contained(s, small, big, side, include_all, li, ri) ==
    LET row == IF side = LEFT_SIDE THEN Row(big, small, small)
                                   ELSE Row(small, big, small)
        add_from_ == Max(s.added_until, big[1])
    IN  IF include_all /\ small[1] > big[1] /\ small[1] > s.added_until
          THEN Scanned(s, GapHangs(add_from_, small[1]),
                       add_pixels_until(add_from_, small[1], big, side) \o <<row>>,
                       small[2], li, ri)
          ELSE Scanned(s, FALSE, <<row>>, small[2], li, ri)

\* Lines 277-289, as AddRemainingPixels.
add_remaining_pixels(s, pixel_list, index, side) ==
    LET pix == pixel_list[index + 1]
    IN  IF pix[1] < s.added_until /\ s.added_until < pix[2]
          THEN Scanned(s, GapHangs(s.added_until, pix[2]),
                       add_pixels_until(s.added_until, pix[2], pix, side)
                           \o VerbatimRows(pixel_list, index + 1, side),
                       s.added_until, s.left_index, s.right_index)
        ELSE IF s.added_until >= pix[2]
          THEN Scanned(s, FALSE, VerbatimRows(pixel_list, index + 1, side),
                       s.added_until, s.left_index, s.right_index)
        ELSE Scanned(s, FALSE, VerbatimRows(pixel_list, index, side),
                     s.added_until, s.left_index, s.right_index)

\* Lines 318-376: the loop from local state s on.
RECURSIVE scan_loop(_, _, _, _, _)
scan_loop(l, r, inc_left, inc_right, s) ==
    IF s.hangs \/ ~(s.left_index < Len(l) /\ s.right_index < Len(r)) THEN s
    ELSE LET lp == l[s.left_index + 1]
             rp == r[s.right_index + 1]
             li == s.left_index
             ri == s.right_index
         IN  scan_loop(l, r, inc_left, inc_right,
                 IF lp[1] >= rp[2]
                   THEN no_overlap(s, rp, RIGHT_SIDE, inc_right, li, ri + 1)
                 ELSE IF rp[1] >= lp[2]
                   THEN no_overlap(s, lp, LEFT_SIDE, inc_left, li + 1, ri)
                 ELSE IF PixSize(lp) = PixSize(rp)
                   THEN Scanned(s, FALSE, <<Row(lp, rp, lp)>>, lp[2], li + 1, ri + 1)
                 ELSE IF PixSize(lp) < PixSize(rp)
                   THEN contained(s, lp, rp, RIGHT_SIDE, inc_right, li + 1, ri)
                 ELSE contained(s, rp, lp, LEFT_SIDE, inc_left, li, ri + 1))

\* Lines 380-383: the pixels of one side the loop has not visited, where
\* that side is to be covered.
remaining_pixels(s, pixel_list, side, include_all) ==
    LET index == IF side = LEFT_SIDE THEN s.left_index ELSE s.right_index
    IN  IF ~s.hangs /\ include_all /\ index < Len(pixel_list)
          THEN add_remaining_pixels(s, pixel_list, index, side)
          ELSE s

\* perform_align_trees, lines 314-384.
perform_align_trees(l, r, inc_left, inc_right) ==
    remaining_pixels(
        remaining_pixels(
            scan_loop(l, r, inc_left, inc_right,
                      [hangs |-> FALSE, mapping |-> <<>>, added_until |-> 0,
                       left_index |-> 0, right_index |-> 0]),
            r, RIGHT_SIDE, inc_right),
        l, LEFT_SIDE, inc_left)

\* Lines 160-197: the loop from local state s on (mapping holds the rows
\* written, last_index is its length).
RECURSIVE inner_loop(_, _, _)
inner_loop(l, r, s) ==
    IF ~(s.left_index < Len(l) /\ s.right_index < Len(r)) THEN s
    ELSE LET lp == l[s.left_index + 1]
             rp == r[s.right_index + 1]
             li == s.left_index
             ri == s.right_index
         IN  inner_loop(l, r,
                 IF lp[1] >= rp[2]
                   THEN Scanned(s, FALSE, <<>>, 0, li, ri + 1)
                 ELSE IF rp[1] >= lp[2]
                   THEN Scanned(s, FALSE, <<>>, 0, li + 1, ri)
                 ELSE Scanned(s, FALSE, <<InnerRow(lp, rp)>>, 0,
                              IF PixSize(lp) <= PixSize(rp) THEN li + 1 ELSE li,
                              IF PixSize(lp) >= PixSize(rp) THEN ri + 1 ELSE ri))

\* perform_inner_align_trees, lines 155-198.
perform_inner_align_trees(l, r) ==
    inner_loop(l, r, [hangs |-> FALSE, mapping |-> <<>>, added_until |-> 0,
                      left_index |-> 0, right_index |-> 0])

\* Lines 94-99: the scan the alignment type selects, on the shifted trees.
aligned_mapping(la, ra, type) ==
    IF type = INNER
      THEN perform_inner_align_trees(la, ra)
      ELSE perform_align_trees(la, ra, type \in LEFT_INCLUDE_ALIGNMENT_TYPES,
                               type \in RIGHT_INCLUDE_ALIGNMENT_TYPES)

\* Lines 100-103: the alignment returned, of the scan's result m at order n.
PixelAlignment(m, n) ==
    [hangs |-> m.hangs, tree_order |-> n, mapping |-> m.mapping,
     result_tree |-> ResultTree(m.mapping)]

\* align_trees, lines 88-103.
align_trees(l, r, type) ==
    PixelAlignment(
        aligned_mapping(
            ShiftTree(l.tree, Max(l.tree_order, r.tree_order) - l.tree_order),
            ShiftTree(r.tree, Max(l.tree_order, r.tree_order) - r.tree_order),
            type),
        Max(l.tree_order, r.tree_order))

\* One call align_trees(left, right, alignment_type) on well-formed trees.
AlignCall ==
    call \in [fn : {"align_trees"}, left : PixelTrees, right : PixelTrees,
              alignment_type : PixelAlignmentType]

InitCall ==
    /\ NoAlignment
    /\ AlignCall
    /\ outcome = PENDING

\* The call returns its alignment; a call whose _add_pixels_until loop never
\* ends returns nothing.
AlignTreesCall ==
    /\ call.fn = "align_trees"
    /\ outcome = PENDING
    /\ outcome' = Returned(align_trees(call.left, call.right, call.alignment_type))
    /\ ~outcome'.value.hangs
    /\ UNCHANGED <<call, alignment_vars>>

NextCall == AlignTreesCall

SpecCall == InitCall /\ [][NextCall]_vars

\* ---------------------------------------------------------------- claim C23
\* A step that ends an iteration of a merge-scan: an iteration of the inner
\* scan, an iteration of the outer scan that calls no gap fill, or the return
\* of the gap fill an iteration of the outer scan called.
IterationEnds ==
    \/ pc \in {"inner", "scan"} /\ ScanCondition /\ pc' # "fill"
    \/ pc = "fill" /\ cont.pc = "scan" /\ pc' = "scan"

\* The cursor advances <<left, right>> the iteration on l and r is to make.
Advance(l, r) ==
    IF ~Overlap(l, r) THEN (IF l[2] <= r[1] THEN <<1, 0>> ELSE <<0, 1>>)
    ELSE IF PixSize(l) = PixSize(r) THEN <<1, 1>>
    ELSE IF Inside(l, r) THEN <<1, 0>>
    ELSE <<0, 1>>

\* C23: no step moves a cursor of the merge-scan backwards, and every
\* iteration advances exactly the cursors named: without overlap only the
\* cursor of the side whose interval ends first, by one; with overlap and
\* equal sizes both by one; with one interval strictly inside the other only
\* the cursor of the finer side, by one.  No other step moves a cursor.
C23_CursorsAdvance ==
    [][/\ left_index' >= left_index
       /\ right_index' >= right_index
       /\ IF IterationEnds
            THEN <<left_index' - left_index, right_index' - right_index>> =
                     Advance(left_pix, right_pix)
            ELSE left_index' = left_index /\ right_index' = right_index]_vars

\* An outer scan that has advanced the cursors unevenly and has filled a gap.
C23_Witness ==
    /\ pc = "scan"
    /\ left_index >= 2
    /\ right_index = 1
    /\ \E i \in DOMAIN mapping : IsGapRow(mapping[i])

\* ---------------------------------------------------------------- claim C24
\* The tiles that fill [from, to), each the largest power of 4 that divides
\* its start and fits.
RECURSIVE GapTiles(_, _)
GapTiles(from, to) ==
    IF from >= to THEN <<>>
    ELSE LET size == LargestPow4(from, to - from)
         IN  <<<<from, from + size>>>> \o GapTiles(from + size, to)

\* A row with pix on the given side, the other side absent.
OneSidedRow(pix, aligned, side) ==
    IF side = LEFT_SIDE THEN Row(pix, NONE_PIX, aligned)
                        ELSE Row(NONE_PIX, pix, aligned)

\* The rows due for the intervals of pixel_list the scan has not visited
\* (those after the first `index`), with the coverage so far ending at until.
RemainingRows(pixel_list, index, side, until) ==
    IF index >= Len(pixel_list) THEN <<>>
    ELSE LET first == pixel_list[index + 1]
             tiles == GapTiles(until, first[2])
             head  == IF first[2] <= until THEN <<>>
                      ELSE IF first[1] < until
                        THEN [i \in DOMAIN tiles |-> OneSidedRow(first, tiles[i], side)]
                      ELSE <<OneSidedRow(first, first, side)>>
             rest  == [i \in 1..(Len(pixel_list) - index - 1) |->
                          OneSidedRow(pixel_list[index + 1 + i],
                                      pixel_list[index + 1 + i], side)]
         IN  head \o rest

\* The rows a finished outer scan owes to the unvisited intervals: the right
\* side's first (lines 380-381), then the left side's (lines 382-383).
RemainingTail ==
    (IF include_all_right
       THEN RemainingRows(right_aligned, right_index, RIGHT_SIDE, added_until)
       ELSE <<>>)
    \o (IF include_all_left
          THEN RemainingRows(left_aligned, left_index, LEFT_SIDE, added_until)
          ELSE <<>>)

\* The calls that run perform_align_trees: every type but INNER.
InitOuter == Init /\ alignment_type # INNER

NextOuter ==
    \/ AlignTrees
    \/ ScanStep
    \/ AddPixelsStep
    \/ AddPixelsReturn
    \/ RemainingRight
    \/ RemainingLeft
    \/ Return

SpecOuter == InitOuter /\ [][NextOuter]_vars

\* C24: when the merge-scan has ended, the rows of the scan itself all end
\* at or before the covered-until watermark, and the rows after them are
\* those of the unvisited intervals of each side the mode covers in full:
\* every such interval but the first lies entirely beyond the watermark,
\* and each interval beyond it is emitted verbatim as one row with the other
\* side absent; the first is skipped if the watermark has passed its end and
\* replaced by the tiles of its uncovered tail if the watermark lies inside
\* it.  With an empty other tree that is every tile of the side, verbatim.
\* (The rows are those of perform_align_trees as a function of its
\* arguments.)
C24_RemainingVerbatim ==
    (pc = "done" /\ alignment_type # INNER /\ Len(mapping) < MaxRows) =>
        LET tail == RemainingTail
            scan == Len(mapping) - Len(tail)
        IN  /\ scan >= 0
            /\ SubSeq(mapping, scan + 1, Len(mapping)) = tail
            /\ \A i \in 1..scan : RowAligned(mapping[i])[2] <= added_until
            /\ include_all_left =>
                  \A j \in (left_index + 2)..Len(left_aligned) :
                      left_aligned[j][1] >= added_until
            /\ include_all_right =>
                  \A j \in (right_index + 2)..Len(right_aligned) :
                      right_aligned[j][1] >= added_until
            /\ mapping = perform_align_trees(left_aligned, right_aligned,
                                            include_all_left, include_all_right).mapping
            /\ (right_aligned = <<>> /\ include_all_left) =>
                  mapping = [i \in DOMAIN left_aligned |->
                                Row(left_aligned[i], NONE_PIX, left_aligned[i])]
            /\ (left_aligned = <<>> /\ include_all_right) =>
                  mapping = [i \in DOMAIN right_aligned |->
                                Row(NONE_PIX, right_aligned[i], right_aligned[i])]

\* A finished call whose first unvisited left interval is partially covered
\* and is followed by another unvisited left interval.
C24_Witness ==
    /\ pc = "done"
    /\ include_all_left
    /\ Len(mapping) < MaxRows
    /\ left_index + 2 <= Len(left_aligned)
    /\ left_aligned[left_index + 1][1] < added_until
    /\ added_until < left_aligned[left_index + 1][2]

\* ---------------------------------------------------------------- claim C25
\* The intervals of a tree of order d, re-expressed at order D >= d.
ReExpressed(t, D) ==
    [tree_order |-> D,
     tree |-> [i \in DOMAIN t.tree |->
                  <<t.tree[i][1] * Pow4(D - t.tree_order),
                    t.tree[i][2] * Pow4(D - t.tree_order)>>]]

MaxOrder == Max(left.tree_order, right.tree_order)

\* The calls on trees of different orders: one of them has to be shifted.
InitShift == Init /\ left.tree_order # right.tree_order

SpecShift == InitShift /\ [][Next]_vars

\* C25: align_trees first re-expresses both trees at D = max(left.order,
\* right.order), multiplying every endpoint of a tree of order d by
\* 4^(D - d); the tree already at order D is unchanged; the aligned tree has
\* order D; and the call returns the order, rows and aligned tree that
\* align_trees returns for the two trees supplied at order D.
C25_ShiftToCommonOrder ==
    /\ pc # "start" =>
          /\ max_n = MaxOrder
          /\ left_aligned = ReExpressed(left, MaxOrder).tree
          /\ right_aligned = ReExpressed(right, MaxOrder).tree
          /\ left.tree_order = MaxOrder => left_aligned = left.tree
          /\ right.tree_order = MaxOrder => right_aligned = right.tree
    /\ (pc = "done" /\ Len(mapping) < MaxRows) =>
          LET a == align_trees(ReExpressed(left, MaxOrder),
                               ReExpressed(right, MaxOrder), alignment_type)
          IN  /\ ~a.hangs
              /\ a.tree_order = max_n
              /\ a.mapping = mapping
              /\ a.result_tree = result_tree

\* A finished call on two trees of different orders that has paired a
\* re-expressed left pixel with a right pixel inside it.
C25_Witness ==
    /\ pc = "done"
    /\ left.tree_order < right.tree_order
    /\ left_aligned # left.tree
    /\ \E i \in DOMAIN mapping :
          /\ RowLeft(mapping[i]) # NONE_PIX
          /\ RowRight(mapping[i]) # NONE_PIX
          /\ RowLeft(mapping[i]) # RowRight(mapping[i])

\* ---------------------------------------------------------------- claim C26
\* The rows of the alignment a call has returned, and the two trees at the
\* alignment's order.
Returned_rows == outcome.value.mapping
Left_at_order ==
    ShiftTree(call.left.tree, outcome.value.tree_order - call.left.tree_order)
Right_at_order ==
    ShiftTree(call.right.tree, outcome.value.tree_order - call.right.tree_order)

\* C26: in every row of the correspondence of every mode the aligned
\* interval lies inside the row's left interval when the left side is
\* present and inside the row's right interval when the right side is
\* present; a present side is a tile of that side's tree, so the present
\* side of a gap-fill row is the input tile that contains the filled
\* interval.
C26_AlignedInsideSides ==
    Finished("align_trees") =>
        \A i \in DOMAIN Returned_rows :
            LET l == RowLeft(Returned_rows[i])
                r == RowRight(Returned_rows[i])
                a == RowAligned(Returned_rows[i])
            IN  /\ a[1] < a[2]
                /\ l # NONE_PIX =>
                      /\ Inside(a, l)
                      /\ \E j \in DOMAIN Left_at_order : Left_at_order[j] = l
                /\ r # NONE_PIX =>
                      /\ Inside(a, r)
                      /\ \E j \in DOMAIN Right_at_order : Right_at_order[j] = r
                /\ IsGapRow(Returned_rows[i]) =>
                      \/ l # NONE_PIX /\ PixSize(a) < PixSize(l)
                      \/ r # NONE_PIX /\ PixSize(a) < PixSize(r)

\* An OUTER alignment with a gap filled inside a left tile and a gap filled
\* inside a right tile.
C26_Witness ==
    /\ Finished("align_trees")
    /\ call.alignment_type = OUTER
    /\ \E i \in DOMAIN Returned_rows :
          /\ IsGapRow(Returned_rows[i])
          /\ RowLeft(Returned_rows[i]) # NONE_PIX
          /\ RowAligned(Returned_rows[i])[1] > RowLeft(Returned_rows[i])[1]
    /\ \E i \in DOMAIN Returned_rows :
          /\ IsGapRow(Returned_rows[i])
          /\ RowRight(Returned_rows[i]) # NONE_PIX
          /\ RowAligned(Returned_rows[i])[1] > RowRight(Returned_rows[i])[1]

\* ---------------------------------------------------------------- claim C27
\* C27: every row has at least one side present; in LEFT mode the left side
\* is present in every row, in RIGHT mode the right side; and a side is
\* absent in a row only when no tile of that side's tree overlaps the row's
\* aligned tile.
C27_AbsentOnlyWithoutOverlap ==
    Finished("align_trees") =>
        \A i \in DOMAIN Returned_rows :
            LET l == RowLeft(Returned_rows[i])
                r == RowRight(Returned_rows[i])
                a == RowAligned(Returned_rows[i])
            IN  /\ l # NONE_PIX \/ r # NONE_PIX
                /\ call.alignment_type = LEFT => l # NONE_PIX
                /\ call.alignment_type = RIGHT => r # NONE_PIX
                /\ l = NONE_PIX =>
                      \A j \in DOMAIN Left_at_order : ~Overlap(Left_at_order[j], a)
                /\ r = NONE_PIX =>
                      \A j \in DOMAIN Right_at_order : ~Overlap(Right_at_order[j], a)

\* A RIGHT alignment with a right tile no left tile overlaps, a gap row and
\* a row that pairs a left tile with a right tile.
C27_Witness ==
    /\ Finished("align_trees")
    /\ call.alignment_type = RIGHT
    /\ call.left.tree # <<>>
    /\ \E i \in DOMAIN Returned_rows :
          /\ RowLeft(Returned_rows[i]) = NONE_PIX
          /\ RowAligned(Returned_rows[i]) = RowRight(Returned_rows[i])
    /\ \E i \in DOMAIN Returned_rows : IsGapRow(Returned_rows[i])
    /\ \E i \in DOMAIN Returned_rows : RowLeft(Returned_rows[i]) # NONE_PIX

\* ---------------------------------------------------------------- claim C28
\* The rows with the left and the right columns swapped.
Swapped(m) ==
    [i \in DOMAIN m |-> Row(RowRight(m[i]), RowLeft(m[i]), RowAligned(m[i]))]

\* The alignment type that treats the swapped arguments alike.
Mirror(type) ==
    IF type = LEFT THEN RIGHT ELSE IF type = RIGHT THEN LEFT ELSE type

\* C28: for every pair of well-formed trees A and B, align(A, B, LEFT)
\* yields the rows of align(B, A, RIGHT) in the same order with the left and
\* right columns swapped, and likewise RIGHT against LEFT, INNER against
\* INNER and OUTER against OUTER; the aligned tree and its order are the
\* same.
C28_MirrorSymmetry ==
    Finished("align_trees") =>
        LET ba == align_trees(call.right, call.left, Mirror(call.alignment_type))
        IN  /\ ~ba.hangs
            /\ Returned_rows = Swapped(ba.mapping)
            /\ outcome.value.result_tree = ba.result_tree
            /\ outcome.value.tree_order = ba.tree_order

\* A LEFT alignment of two different trees with a row of each kind: a pair
\* of different pixels, a left pixel alone, and a gap row.
C28_Witness ==
    /\ Finished("align_trees")
    /\ call.alignment_type = LEFT
    /\ call.left # call.right
    /\ call.right.tree # <<>>
    /\ \E i \in DOMAIN Returned_rows :
          /\ RowRight(Returned_rows[i]) # NONE_PIX
          /\ RowLeft(Returned_rows[i]) # RowRight(Returned_rows[i])
    /\ \E i \in DOMAIN Returned_rows :
          /\ RowRight(Returned_rows[i]) = NONE_PIX
          /\ RowAligned(Returned_rows[i]) = RowLeft(Returned_rows[i])
    /\ \E i \in DOMAIN Returned_rows : IsGapRow(Returned_rows[i])

\* ---------------------------------------------------------------- claim C30
\* The length of the buffer perform_inner_align_trees allocates, line 155.
max_out_len == Len(left_aligned) + Len(right_aligned)

\* The calls that run perform_inner_align_trees.
InitInner == Init /\ alignment_type = INNER

NextInner ==
    \/ AlignTrees
    \/ InnerStep
    \/ InnerReturn
    \/ Return

SpecInner == InitInner /\ [][NextInner]_vars

\* C30: in perform_inner_align_trees the rows written never exceed the
\* pre-sized buffer: at every point last_index <= left_index + right_index
\* <= len(left) + len(right); whenever the loop is about to write, the slot
\* last_index lies inside the buffer; and the slice returned holds exactly
\* the rows written, in the order written.
C30_InnerBufferBound ==
    (alignment_type = INNER /\ pc # "start") =>
        /\ last_index <= left_index + right_index
        /\ left_index + right_index <= max_out_len
        /\ pc = "inner" =>
              /\ Len(mapping) = max_out_len
              /\ ScanCondition => last_index + 1 \in DOMAIN mapping
        /\ pc \in {"ret", "done"} =>
              /\ Len(mapping) = last_index
              /\ mapping = perform_inner_align_trees(left_aligned, right_aligned).mapping

\* An inner scan that has written fewer rows than it has made steps and is
\* to write one more.
C30_Witness ==
    /\ pc = "inner"
    /\ ScanCondition
    /\ Overlap(left_pix, right_pix)
    /\ last_index >= 1
    /\ last_index < left_index + right_index

\* ================= inspection/visualize_catalog.py, _merge_too_small_pixels
\* The highest order of an entry of the map, and of depth_res.
MergeOrder == 2
\* The highest pixel number of an entry.
MaxIpix == 4
\* The most pixels of one entry, and the most entries of the map.
MaxMerge == 2

\* depth_ipix_d is a dict in insertion order: a sequence of entries
\* [d, ip, vals] with distinct keys d.
DictKeys(dict) == { dict[i].d : i \in DOMAIN dict }
DictGet(dict, d) == dict[CHOOSE i \in DOMAIN dict : dict[i].d = d]

\* dict[d] = (ip, vals): a known key keeps its place, a new one goes last.
DictSet(dict, d, ip, vals) ==
    IF d \in DictKeys(dict)
      THEN [i \in DOMAIN dict |->
               IF dict[i].d = d THEN [d |-> d, ip |-> ip, vals |-> vals] ELSE dict[i]]
      ELSE Append(dict, [d |-> d, ip |-> ip, vals |-> vals])

\* ip >> (2 * (d - depth_res)), line 203.
ShiftDown(ip, k) == [i \in DOMAIN ip |-> ip[i] \div Pow4(k)]

\* np.unique(a, return_index=True), line 205: the distinct values in
\* ascending order, and for each the index of its first occurrence.
Unique(a) ==
    LET values == Range(a)
    IN  [i \in 1..Cardinality(values) |->
            CHOOSE v \in values : Cardinality({ w \in values : w < v }) = i - 1]

UniqueIndices(a) ==
    [i \in DOMAIN Unique(a) |->
        CHOOSE j \in DOMAIN a :
            a[j] = Unique(a)[i] /\ \A k \in DOMAIN a : a[k] = a[j] => j <= k]

\* np.argsort(a), line 213: an order of the indices that sorts a; the
\* default sort promises no order among equal elements.
ArgSorts(a) ==
    { p \in Permutations(DOMAIN a) :
        \A i, j \in DOMAIN a : i < j => a[p[i]] <= a[p[j]] }

\* max(depth_ipix_d.keys()), line 191.
max_depth(dict) == CHOOSE d \in DictKeys(dict) : \A e \in DictKeys(dict) : e <= d

\* A call: a map of one or more entries, each of at most MaxMerge distinct
\* pixels in any order with a map value each; depth_res is what lines
\* 184-189 compute from the plot's resolution, at least 0; the loop
\* variables of lines 198-215 start with it.
MergeCall ==
    \E depth_res \in 0..MergeOrder :
        \E n \in 1..MaxMerge :
            \E orders \in [1..n -> 0..MergeOrder] :
                /\ \A i, j \in 1..n : i # j => orders[i] # orders[j]
                /\ \E ips \in [1..n -> SeqUpTo(0..MaxIpix, MaxMerge)] :
                       /\ \A i \in 1..n : ips[i] # <<>> /\ Len(ips[i]) = Cardinality(Range(ips[i]))
                       /\ \E vs \in [1..n -> SeqUpTo({1, 2}, MaxMerge)] :
                              /\ \A i \in 1..n : Len(vs[i]) = Len(ips[i])
                              /\ call = [fn |-> "_merge_too_small_pixels",
                                         depth_ipix_d |->
                                             [i \in 1..n |-> [d |-> orders[i],
                                                              ip |-> ips[i],
                                                              vals |-> vs[i]]],
                                         depth_res |-> depth_res,
                                         index |-> 1,
                                         new_ipix_d |-> <<>>]

InitMerge ==
    /\ NoAlignment
    /\ MergeCall
    /\ outcome = PENDING

\* Lines 194 and 217 when no entry is too small: the map itself is returned.
MergeNothing ==
    /\ call.fn = "_merge_too_small_pixels"
    /\ outcome = PENDING
    /\ ~(max_depth(call.depth_ipix_d) > call.depth_res)
    /\ outcome' = Returned(call.depth_ipix_d)
    /\ UNCHANGED <<call, alignment_vars>>

\* Lines 199-201: an entry of an order up to depth_res is taken as it is.
MergeKeep ==
    /\ call.fn = "_merge_too_small_pixels"
    /\ outcome = PENDING
    /\ max_depth(call.depth_ipix_d) > call.depth_res
    /\ call.index <= Len(call.depth_ipix_d)
    /\ LET e == call.depth_ipix_d[call.index]
       IN  /\ e.d <= call.depth_res
           /\ call' = [call EXCEPT
                          !.new_ipix_d = DictSet(call.new_ipix_d, e.d, e.ip, e.vals),
                          !.index = call.index + 1]
    /\ UNCHANGED <<outcome, alignment_vars>>

\* Lines 202-215: an entry of a higher order is brought to depth_res and put
\* with what new_ipix_d has at depth_res.
MergeEntry ==
    /\ call.fn = "_merge_too_small_pixels"
    /\ outcome = PENDING
    /\ max_depth(call.depth_ipix_d) > call.depth_res
    /\ call.index <= Len(call.depth_ipix_d)
    /\ LET e == call.depth_ipix_d[call.index]
           ipix_depth_res == ShiftDown(e.ip, e.d - call.depth_res)
           unique_ipix == Unique(ipix_depth_res)
           vals_depth_res == Take(e.vals, UniqueIndices(ipix_depth_res))
       IN  /\ e.d > call.depth_res
           /\ IF call.depth_res \notin DictKeys(call.new_ipix_d)
                THEN call' = [call EXCEPT
                         !.new_ipix_d = DictSet(call.new_ipix_d, call.depth_res,
                                                unique_ipix, vals_depth_res),
                         !.index = call.index + 1]
                ELSE LET old == DictGet(call.new_ipix_d, call.depth_res)
                         ipix_all == old.ip \o unique_ipix
                         vals_all == old.vals \o vals_depth_res
                     IN  \E ip_argsort \in ArgSorts(ipix_all) :
                             call' = [call EXCEPT
                                 !.new_ipix_d = DictSet(call.new_ipix_d, call.depth_res,
                                                        Take(ipix_all, ip_argsort),
                                                        Take(vals_all, ip_argsort)),
                                 !.index = call.index + 1]
    /\ UNCHANGED <<outcome, alignment_vars>>

\* Lines 216-217: the new map is returned.
MergeReturn ==
    /\ call.fn = "_merge_too_small_pixels"
    /\ outcome = PENDING
    /\ max_depth(call.depth_ipix_d) > call.depth_res
    /\ call.index > Len(call.depth_ipix_d)
    /\ outcome' = Returned(call.new_ipix_d)
    /\ UNCHANGED <<call, alignment_vars>>

NextMerge ==
    \/ MergeNothing
    \/ MergeKeep
    \/ MergeEntry
    \/ MergeReturn

SpecMerge == InitMerge /\ [][NextMerge]_vars

\* ---------------------------------------------------------------- claim C29
\* C29: in the map _merge_too_small_pixels returns after merging, no entry
\* has an order above depth_res, every (order, pixel number) pair occurs at
\* most once, also when pixels of several orders above depth_res fall into
\* one pixel of order depth_res and when the input has pixels at order
\* depth_res already, and the entries of orders below depth_res are those
\* of the input.
C29_MergedUnique ==
    (Finished("_merge_too_small_pixels")
         /\ max_depth(call.depth_ipix_d) > call.depth_res) =>
        LET out == outcome.value
        IN  /\ \A i \in DOMAIN out : out[i].d <= call.depth_res
            /\ \A i, j \in DOMAIN out : i # j => out[i].d # out[j].d
            /\ \A i \in DOMAIN out :
                   \A k, m \in DOMAIN out[i].ip :
                       k # m => out[i].ip[k] # out[i].ip[m]
            /\ \A i \in DOMAIN call.depth_ipix_d :
                   call.depth_ipix_d[i].d < call.depth_res =>
                       \E j \in DOMAIN out : out[j] = call.depth_ipix_d[i]

====
